---- MODULE Spec2Model ----
(***************************************************************************)
(* A model of dagrunner (src/src/dagrunner/runner.py): the placeholder     *)
(* resolver, the dependency resolver, the job runner, the task selector,   *)
(* validate_config, run_all_jobs with its log files, main, what run_task   *)
(* hands to its backends, a backend call that does not return, and the     *)
(* loop of _dependency_closure.                                            *)
(*                                                                         *)
(* Python strings are TLA+ strings, read character by character with Len   *)
(* and SubSeq.  Every other Python value is a tagged record [t, v]:        *)
(* None, int, bool, str, list (a sequence) and dict (a sequence of         *)
(* <<key, value>> pairs in insertion order, keys being plain strings).     *)
(* A raised exception is the value [t |-> "raise", v |-> <its class>].     *)
(***************************************************************************)
EXTENDS Integers, Sequences, FiniteSets, TLC

VARIABLES
    job,          \* run_job's argument `job`: its "tasks" list, in declaration order
    dry_run,      \* run_job's argument `dry_run`
    ignore_deps,  \* run_job's argument `ignore_deps`
    pc,           \* where run_job stands: "start", "loop", "done", "crashed" ("idle": not called)
    tasks,        \* run_job's local `tasks`, the order resolve_dependencies returned
    idx,          \* the position in `tasks` of the next loop iteration
    task_outputs, \* run_job's local `task_outputs`: task id -> result
    calls,        \* history: task id -> the run_task call made for it
    log,          \* history: the entries written to the job's log file; under
                  \* run_all_jobs, path -> the operations done on that log file
    resolutions,  \* history: task id -> what its placeholder resolution saw and gave
    python_ok,    \* environment: _ensure_real_python finds an interpreter
    fn_in,        \* the arguments of a single call of one of the resolvers
    fn_out,       \* its result, "pending" before the call
    config,       \* run_all_jobs's `jobs`: the <<job id, job>> pairs of the configuration
    procs,        \* run_all_jobs's `procs`: the workers started so far, each with its state
    main_pc,      \* where run_all_jobs stands: "starting", "joining", "returned" ("idle": not called)
    main_i        \* the position of its loop over the jobs, then over the workers

vars == <<job, dry_run, ignore_deps, pc, tasks, idx, task_outputs, calls, log,
          resolutions, python_ok, fn_in, fn_out, config, procs, main_pc, main_i>>

jobVars == <<job, dry_run, ignore_deps, pc, tasks, idx, task_outputs, calls, log,
             resolutions, python_ok>>

fnVars == <<fn_in, fn_out>>

poolVars == <<config, procs, main_pc, main_i>>

----------------------------------------------------------------------------
(* Python values *)

VNone == [t |-> "none", v |-> 0]

VInt(n) == [t |-> "int", v |-> n]

VBool(b) == [t |-> "bool", v |-> b]

VStr(s) == [t |-> "str", v |-> s]

VList(q) == [t |-> "list", v |-> q]

VDict(q) == [t |-> "dict", v |-> q]

Raise(cls) == [t |-> "raise", v |-> cls]

IsRaise(x) == x.t = "raise"

\* key in d, for a dict d
HasKey(d, key) == \E i \in 1..Len(d.v) : d.v[i][1] = key

\* d[key], for a dict d that has the key
Item(d, key) == d.v[CHOOSE i \in 1..Len(d.v) : d.v[i][1] = key][2]

\* d.get(key, default)
DictGet(d, key, default) == IF HasKey(d, key) THEN Item(d, key) ELSE default

\* {**d, key: val}: the key keeps its place when present, else it is appended
DictSet(d, key, val) ==
    IF HasKey(d, key)
    THEN VDict([i \in 1..Len(d.v) |-> IF d.v[i][1] = key THEN <<key, val>> ELSE d.v[i]])
    ELSE VDict(Append(d.v, <<key, val>>))

RECURSIVE JoinStr(_, _)
\* sep.join(q), for a sequence q of strings
JoinStr(q, sep) ==
    IF Len(q) = 0 THEN ""
    ELSE IF Len(q) = 1 THEN q[1]
    ELSE q[1] \o sep \o JoinStr(Tail(q), sep)

RECURSIVE PyRepr(_)
\* repr(x); str(x) differs from it for strings only
PyRepr(x) ==
    CASE x.t = "none" -> "None"
      [] x.t = "int"  -> ToString(x.v)
      [] x.t = "bool" -> IF x.v THEN "True" ELSE "False"
      [] x.t = "str"  -> "'" \o x.v \o "'"
      [] x.t = "list" -> "[" \o JoinStr([i \in 1..Len(x.v) |-> PyRepr(x.v[i])], ", ") \o "]"
      [] x.t = "dict" ->
            "{" \o JoinStr([i \in 1..Len(x.v) |->
                              "'" \o x.v[i][1] \o "': " \o PyRepr(x.v[i][2])], ", ") \o "}"

\* str(x)
PyStr(x) == IF x.t = "str" THEN x.v ELSE PyRepr(x)

----------------------------------------------------------------------------
(* Python strings and the placeholder pattern *)

Letters ==
    {"a","b","c","d","e","f","g","h","i","j","k","l","m","n","o","p","q","r","s","t",
     "u","v","w","x","y","z","A","B","C","D","E","F","G","H","I","J","K","L","M","N",
     "O","P","Q","R","S","T","U","V","W","X","Y","Z"}

Digits == {"0","1","2","3","4","5","6","7","8","9"}

\* the class [A-Za-z0-9_\-] of the task-id group
TidChars == Letters \cup Digits \cup {"_", "-"}

\* the class [A-Za-z0-9_\.] of the field group
FieldChars == Letters \cup Digits \cup {"_", "."}

CharAt(s, i) == SubSeq(s, i, i)

\* s.startswith(p)
StartsWith(s, p) == Len(s) >= Len(p) /\ SubSeq(s, 1, Len(p)) = p

\* s[n:], n counted from 0
DropPrefix(s, n) == SubSeq(s, n + 1, Len(s))

RECURSIVE RunEnd(_, _, _)
\* the last position of the longest run of characters of `class` that starts at i
\* (i - 1 when s[i] is not in the class): what a greedy `[class]+` consumes
RunEnd(s, i, class) ==
    IF i <= Len(s) /\ CharAt(s, i) \in class THEN RunEnd(s, i + 1, class) ELSE i - 1

PlaceholderPrefix == "${outputs."

\* _PLACEHOLDER_RE.match(s, i): the match that starts at position i, if there is one.
\* A task id stops at the first "." and a field path at the first character that
\* is not of its class, so the greedy runs are the only candidates.
placeholder_match(s, i) ==
    LET p  == Len(PlaceholderPrefix)
        t0 == i + p
        t1 == RunEnd(s, t0, TidChars)
        f0 == t1 + 2
        f1 == RunEnd(s, f0, FieldChars)
        ok == /\ i + p - 1 <= Len(s)
              /\ SubSeq(s, i, i + p - 1) = PlaceholderPrefix
              /\ t1 >= t0
              /\ t1 + 1 <= Len(s) /\ CharAt(s, t1 + 1) = "."
              /\ f1 >= f0
              /\ f1 + 1 <= Len(s) /\ CharAt(s, f1 + 1) = "}"
    IN  IF ok
        THEN [ok |-> TRUE, tid |-> SubSeq(s, t0, t1), field |-> SubSeq(s, f0, f1),
              stop |-> f1 + 1]
        ELSE [ok |-> FALSE, tid |-> "", field |-> "", stop |-> 0]

\* _PLACEHOLDER_RE.fullmatch(s)
placeholder_fullmatch(s) ==
    LET m == placeholder_match(s, 1)
    IN  IF m.ok /\ m.stop = Len(s) THEN m ELSE [m EXCEPT !.ok = FALSE]

RECURSIVE SplitFrom(_, _, _)
\* the pieces of s from position i on, `from` being where the current piece began
SplitFrom(s, i, from) ==
    IF i > Len(s) THEN <<SubSeq(s, from, Len(s))>>
    ELSE IF CharAt(s, i) = "."
         THEN <<SubSeq(s, from, i - 1)>> \o SplitFrom(s, i + 1, i + 1)
         ELSE SplitFrom(s, i + 1, from)

\* s.split(".")
SplitDots(s) == SplitFrom(s, 1, 1)

----------------------------------------------------------------------------
(* The placeholder resolver *)

RECURSIVE Descend(_, _)
\* the loop over field_path.split("."): None as soon as a part cannot be followed
Descend(cur, parts) ==
    IF Len(parts) = 0 THEN cur
    ELSE IF cur.t = "dict" /\ HasKey(cur, Head(parts))
         THEN Descend(Item(cur, Head(parts)), Tail(parts))
         ELSE VNone

\* field_path without a leading "return_value" and the dot after it
StripReturnValue(field_path) ==
    IF StartsWith(field_path, "return_value")
    THEN LET rest == DropPrefix(field_path, Len("return_value"))
         IN  IF StartsWith(rest, ".") THEN DropPrefix(rest, 1) ELSE rest
    ELSE field_path

\* a lookup that gives None, and raises nothing, for a task that has no outputs:
\* what MissingTaskRaisesKeyError rules out
get_output_field_lenient(outputs, task_id, field_path) ==
    IF task_id \notin DOMAIN outputs THEN VNone
    ELSE LET cur == DictGet(outputs[task_id], "return_value", VNone)
         IN  IF cur.t = "none" THEN VNone
             ELSE IF StripReturnValue(field_path) = "" THEN cur
             ELSE Descend(cur, SplitDots(StripReturnValue(field_path)))

\* _get_output_field(outputs, task_id, field_path); outputs maps task ids to results
get_output_field(outputs, task_id, field_path) ==
    IF task_id \notin DOMAIN outputs THEN Raise("KeyError")
    ELSE LET cur == DictGet(outputs[task_id], "return_value", VNone)
         IN  IF cur.t = "none" THEN VNone
             ELSE IF field_path = "" THEN cur
             ELSE IF StripReturnValue(field_path) = "" THEN cur
             ELSE Descend(cur, SplitDots(StripReturnValue(field_path)))

\* resolve_placeholders._sub(mobj), mobj being the match m found at position i of s
placeholder_repl(s, i, m, outputs) ==
    LET val == get_output_field(outputs, m.tid, m.field)
    IN  IF IsRaise(val) THEN SubSeq(s, i, m.stop) ELSE PyStr(val)

\* the length of the shortest string the pattern matches: "${outputs.", one
\* character, ".", one character, "}"
MinMatchLen == Len(PlaceholderPrefix) + 4

RECURSIVE placeholder_sub(_, _, _)
\* _PLACEHOLDER_RE.sub(_sub, s) from position i on: the leftmost match is replaced
\* and the scan goes on behind it; any other character is copied, and so is a
\* rest too short to hold a match
placeholder_sub(s, i, outputs) ==
    IF Len(s) - i + 1 < MinMatchLen THEN SubSeq(s, i, Len(s))
    ELSE LET m == placeholder_match(s, i)
         IN  IF m.ok
             THEN placeholder_repl(s, i, m, outputs) \o placeholder_sub(s, m.stop + 1, outputs)
             ELSE CharAt(s, i) \o placeholder_sub(s, i + 1, outputs)

\* the string case of resolve_placeholders
resolve_string(s, outputs) ==
    LET m == placeholder_fullmatch(s)
    IN  IF m.ok THEN get_output_field(outputs, m.tid, m.field)
        ELSE VStr(placeholder_sub(s, 1, outputs))

\* the first exception among the results q, which Python raises out of the
\* comprehension that builds them
FirstRaise(q) == q[CHOOSE i \in 1..Len(q) : IsRaise(q[i]) /\ \A j \in 1..(i - 1) : ~IsRaise(q[j])]

\* the dict or list that a comprehension builds from the results q of resolving
\* the values of obj, or the first exception among them
rebuild(obj, q) ==
    IF \E i \in 1..Len(q) : IsRaise(q[i]) THEN FirstRaise(q)
    ELSE IF obj.t = "dict" THEN VDict([i \in 1..Len(q) |-> <<obj.v[i][1], q[i]>>])
    ELSE VList(q)

RECURSIVE resolve_placeholders(_, _)
RECURSIVE resolve_each(_, _)
\* resolve_placeholders(obj, outputs): the object, or the exception raised
resolve_placeholders(obj, outputs) ==
    CASE obj.t = "dict" ->
            rebuild(obj, resolve_each([i \in 1..Len(obj.v) |-> obj.v[i][2]], outputs))
      [] obj.t = "list" -> rebuild(obj, resolve_each(obj.v, outputs))
      [] obj.t = "str" -> resolve_string(obj.v, outputs)
      [] OTHER -> obj

\* resolve_placeholders applied to each value of a sequence
resolve_each(q, outputs) ==
    IF Len(q) = 0 THEN <<>>
    ELSE <<resolve_placeholders(Head(q), outputs)>> \o resolve_each(Tail(q), outputs)

----------------------------------------------------------------------------
(* Tasks and the dependency resolver *)

\* task["id"]
TaskId(task) == Item(task, "id").v

\* task["type"]
TaskType(task) == Item(task, "type").v

\* task.get("depends_on", []) or [], as a sequence of Python values
DependsOn(task) ==
    LET d == DictGet(task, "depends_on", VList(<<>>))
    IN  IF d.t = "list" THEN d.v ELSE <<>>

\* {t["id"]: t for t in tasks}: a later task replaces an earlier one of the same id
index_tasks(ts) ==
    [id \in {TaskId(ts[i]) : i \in 1..Len(ts)} |->
        ts[CHOOSE i \in 1..Len(ts) :
              TaskId(ts[i]) = id /\ \A j \in (i + 1)..Len(ts) : TaskId(ts[j]) # id]]

\* an end of visit(task) that puts the task in front of what is resolved, and
\* so before its dependencies: what DependenciesComeFirst rules out
visit_end_prepend(task, after) ==
    IF after.err # "" THEN after
    ELSE [seen |-> after.seen \cup {TaskId(task)},
          resolved |-> <<task>> \o after.resolved,
          err |-> ""]

\* an end of visit(task) that appends the task without adding its id to `seen`:
\* what ResolvedIsPermutation rules out
visit_end_unmarked(task, after) ==
    IF after.err # "" THEN after
    ELSE [after EXCEPT !.resolved = Append(after.resolved, task)]

\* the end of visit(task), `after` being the state its loop over the dependencies
\* left: seen.add(task["id"]); resolved.append(task)
visit_end(task, after) ==
    IF after.err # "" THEN after
    ELSE [seen |-> after.seen \cup {TaskId(task)},
          resolved |-> Append(after.resolved, task),
          err |-> ""]

RECURSIVE visit(_, _, _, _)
RECURSIVE visit_deps(_, _, _, _)
\* a visit(task) without the test `task["id"] in seen`: a task on which two tasks
\* depend is then put in the order twice; what ContextIsWriteOnce rules out
visit_again(task, st, task_map, stack) ==
    IF st.err # "" THEN st
    ELSE IF TaskId(task) \in stack THEN [st EXCEPT !.err = "RecursionError"]
    ELSE visit_end(task, visit_deps(DependsOn(task), st, task_map,
                                    stack \cup {TaskId(task)}))

\* a visit(task) that returns when the task's own call is in progress, and so
\* ends on a cycle: what CyclesAreNotDetected rules out
visit_unless_in_progress(task, st, task_map, stack) ==
    IF st.err # "" \/ TaskId(task) \in st.seen \/ TaskId(task) \in stack THEN st
    ELSE visit_end(task, visit_deps(DependsOn(task), st, task_map,
                                    stack \cup {TaskId(task)}))

\* resolve_dependencies.visit(task).  st holds the closure's `seen` and `resolved`
\* and the exception raised so far ("" for none); `stack` holds the ids of the
\* calls of visit that are in progress.  A task met again while its own call is in
\* progress is visited in exactly the same way again, without end: Python stops
\* that with RecursionError.
visit(task, st, task_map, stack) ==
    IF st.err # "" \/ TaskId(task) \in st.seen THEN st
    ELSE IF TaskId(task) \in stack THEN [st EXCEPT !.err = "RecursionError"]
    ELSE visit_end(task, visit_deps(DependsOn(task), st, task_map,
                                    stack \cup {TaskId(task)}))

\* a loop over the dependencies that passes over an id that is no task of the
\* list: what DanglingDependencyStopsJob rules out
visit_deps_that_exist(deps, st, task_map, stack) ==
    IF Len(deps) = 0 \/ st.err # "" THEN st
    ELSE IF Head(deps).v \notin DOMAIN task_map
         THEN visit_deps(Tail(deps), st, task_map, stack)
    ELSE visit_deps(Tail(deps), visit(task_map[Head(deps).v], st, task_map, stack),
                    task_map, stack)

\* the loop `for dep in task.get("depends_on", []): visit(task_map[dep])`
visit_deps(deps, st, task_map, stack) ==
    IF Len(deps) = 0 \/ st.err # "" THEN st
    ELSE IF Head(deps).v \notin DOMAIN task_map THEN [st EXCEPT !.err = "KeyError"]
    ELSE visit_deps(Tail(deps), visit(task_map[Head(deps).v], st, task_map, stack),
                    task_map, stack)

RECURSIVE visit_all_from_last(_, _, _)
\* a loop over the tasks that starts its visits at the last declared task: what
\* DeclarationOrderIsKept rules out
visit_all_from_last(ts, st, task_map) ==
    IF Len(ts) = 0 THEN st
    ELSE visit_all_from_last(SubSeq(ts, 1, Len(ts) - 1),
                             visit(ts[Len(ts)], st, task_map, {}), task_map)

RECURSIVE visit_all(_, _, _)
\* the loop `for task in tasks: visit(task)`
visit_all(ts, st, task_map) ==
    IF Len(ts) = 0 THEN st
    ELSE visit_all(Tail(ts), visit(Head(ts), st, task_map, {}), task_map)

\* resolve_dependencies(tasks): [resolved |-> the order, err |-> "" or the exception]
resolve_dependencies(ts) ==
    visit_all(ts, [seen |-> {}, resolved |-> <<>>, err |-> ""], index_tasks(ts))

----------------------------------------------------------------------------
(* Task results and run_task *)

\* the result run_job records for a task it skips
SkipResult ==
    VDict(<< <<"returncode", VInt(2)>>, <<"stdout", VStr("")>>,
             <<"stderr", VStr("skipped due to failed dependency")>>,
             <<"return_value", VNone>> >>)

\* the result run_task returns in dry-run mode
DryRunResult ==
    VDict(<< <<"returncode", VInt(0)>>, <<"stdout", VStr("")>>, <<"stderr", VStr("")>>,
             <<"return_value", VNone>> >>)

\* the result run_task's `except Exception as e` returns
ExceptionResult(msg) ==
    VDict(<< <<"returncode", VInt(1)>>, <<"stdout", VStr("")>>, <<"stderr", VStr(msg)>>,
             <<"return_value", VNone>> >>)

\* what run_shell and run_script return: no "return_value" key
ProcessResult(rc) ==
    VDict(<< <<"returncode", VInt(rc)>>, <<"stdout", VStr("out")>>,
             <<"stderr", VStr(IF rc = 0 THEN "" ELSE "err")>> >>)

\* what run_function returns: the return value when the function returned, else None
FunctionResult(rc, rv) ==
    VDict(<< <<"stdout", VStr("out")>>, <<"stderr", VStr(IF rc = 0 THEN "" ELSE "trace")>>,
             <<"return_value", IF rc = 0 THEN rv ELSE VNone>>, <<"returncode", VInt(rc)>> >>)

\* result.get("returncode", 1)
ResultCode(result) == DictGet(result, "returncode", VInt(1)).v

\* the values a function task may return
ReturnValues == {VDict(<< <<"x", VInt(42)>>, <<"msg", VStr("ok")>> >>)}

\* the backend run_task calls for a task type ("none": run_task raises ValueError)
BackendOf(type) ==
    CASE type = "shell"    -> "run_shell"
      [] type = "script"   -> "run_script"
      [] type = "function" -> "run_function"
      [] OTHER             -> "none"

\* what a call of a backend can do: exit with a code, or raise
BackendOutcomes(backend) ==
    CASE backend = "run_shell" ->
            {[kind |-> "exit", rc |-> c, rv |-> VNone] : c \in {0, 2}}
      [] backend = "run_script" ->
            {[kind |-> "exit", rc |-> c, rv |-> VNone] : c \in {0, 1}}
            \cup {[kind |-> "raise", rc |-> 1, rv |-> VNone]}
      [] backend = "run_function" ->
            {[kind |-> "exit", rc |-> 0, rv |-> v] : v \in ReturnValues}
            \cup {[kind |-> "exit", rc |-> 1, rv |-> VNone],
                  [kind |-> "raise", rc |-> 1, rv |-> VNone]}
      [] OTHER -> {}

\* a run_task that goes to the backend in dry-run mode too: what
\* DryRunCallsNoBackend rules out
BackendCalledInDryRun(task, dry, py_ok) ==
    IF TaskType(task) \in {"script", "function"} /\ ~py_ok THEN "none"
    ELSE BackendOf(TaskType(task))

\* a run_task for which _ensure_real_python always finds an interpreter: what
\* InterpreterFailureIsTaskFailure rules out
BackendCalledWithInterpreter(task, dry, py_ok) ==
    IF dry THEN "none" ELSE BackendOf(TaskType(task))

\* the backend run_task calls for this task, "none" when it returns or raises
\* before the call: in dry-run mode, for an unknown type, or when
\* _ensure_real_python finds no interpreter for a script or function task
BackendCalled(task, dry, py_ok) ==
    IF dry THEN "none"
    ELSE IF TaskType(task) \in {"script", "function"} /\ ~py_ok THEN "none"
    ELSE BackendOf(TaskType(task))

\* the outcomes among which one call of run_task chooses
TaskOutcomes(task, dry, py_ok) ==
    IF BackendCalled(task, dry, py_ok) = "none"
    THEN {[kind |-> "none", rc |-> 0, rv |-> VNone]}
    ELSE BackendOutcomes(BackendCalled(task, dry, py_ok))

\* run_task(task, interpreter, logf, dry_run), its backend call doing `outcome`
run_task(task, dry, py_ok, outcome) ==
    IF dry THEN DryRunResult
    ELSE IF BackendCalled(task, dry, py_ok) = "none"
         THEN ExceptionResult(IF BackendOf(TaskType(task)) = "none"
                              THEN "Unknown task type"
                              ELSE "No suitable Python interpreter found")
    ELSE IF outcome.kind = "raise" THEN ExceptionResult("error")
    ELSE IF BackendCalled(task, dry, py_ok) = "run_function"
         THEN FunctionResult(outcome.rc, outcome.rv)
         ELSE ProcessResult(outcome.rc)

\* the lines run_task writes to the log
run_task_log(task, dry, result) ==
    << <<"task", TaskId(task)>>,
       IF dry THEN <<"dry_run", TaskId(task)>>
       ELSE <<"status", TaskId(task), IF ResultCode(result) = 0 THEN "done" ELSE "failed">> >>

----------------------------------------------------------------------------
(* run_job *)

\* f with f[k] = val
Put(f, k, val) == [x \in DOMAIN f \cup {k} |-> IF x = k THEN val ELSE f[x]]

EmptyMap == [x \in {} |-> 0]

\* task_outputs.get(d, {}).get("returncode", 0)
RecordedCode(outputs, d) ==
    IF d \in DOMAIN outputs THEN DictGet(outputs[d], "returncode", VInt(0)).v ELSE 0

\* a loop body that, resolve_placeholders having raised, goes on with the task
\* stripped of its arguments: what FailedResolutionKeepsOriginal rules out
task_without_args(task, r) ==
    IF IsRaise(r) THEN VDict(SelectSeq(task.v, LAMBDA kv : kv[1] # "args")) ELSE r

\* the task the loop body goes on with, r being what resolve_placeholders gave:
\* the resolved task, or the original one when it raised and the assignment to
\* `task` never happened
task_after_resolution(task, r) == IF IsRaise(r) THEN task ELSE r

\* a list of failed dependencies that holds those recorded with exit code 1 only,
\* and so none that was skipped: what DependentsOfFailedAreSkipped rules out
failed_deps_code_one(task, outputs) ==
    SelectSeq(DependsOn(task), LAMBDA d : RecordedCode(outputs, d.v) = 1)

\* failed = [d for d in deps if task_outputs.get(d, {}).get("returncode", 0) != 0]
failed_deps(task, outputs) ==
    SelectSeq(DependsOn(task), LAMBDA d : RecordedCode(outputs, d.v) # 0)

\* a skip test that does not look at ignore_deps: what IgnoreDepsRunsEverything
\* rules out
must_skip_despite_flag(task, outputs, ign) ==
    Len(DependsOn(task)) > 0 /\ Len(failed_deps(task, outputs)) > 0

\* a skip test that gives up every task once any task has a non-zero exit code
\* on record: what FailureDoesNotStopJob rules out
must_skip_after_any_failure(task, outputs, ign) ==
    ~ign /\ \E id \in DOMAIN outputs : RecordedCode(outputs, id) # 0

\* a skip test that lets every task through to run_task: what
\* SkippedOnlyAfterFailedDependency rules out
must_skip_never(task, outputs, ign) == FALSE

\* the test `deps and not ignore_deps` followed by `if failed`
must_skip(task, outputs, ign) ==
    Len(DependsOn(task)) > 0 /\ ~ign /\ Len(failed_deps(task, outputs)) > 0

\* the log line of the `except Exception` around resolve_placeholders
resolution_log(task, r) ==
    IF IsRaise(r) THEN << <<"placeholder_error", TaskId(task)>> >> ELSE <<>>

\* a start of run_job whose run context already holds a result for every task of
\* the job: what ContextHoldsOnlyEarlierTasks rules out
RunJobStartShared ==
    /\ pc = "start"
    /\ LET r == resolve_dependencies(job)
       IN  IF r.err # ""
           THEN /\ pc' = "crashed"
                /\ tasks' = <<>>
           ELSE /\ pc' = "loop"
                /\ tasks' = r.resolved
    /\ idx' = 1
    /\ task_outputs' = [id \in {TaskId(job[i]) : i \in 1..Len(job)} |->
                            FunctionResult(0, VDict(<< <<"x", VInt(42)>> >>))]
    /\ log' = Append(log, <<"job_start">>)
    /\ UNCHANGED <<job, dry_run, ignore_deps, calls, resolutions, python_ok, fnVars, poolVars>>

\* run_job up to its loop: the log is opened and resolve_dependencies is called;
\* an exception it raises leaves run_job, and the worker ends without a task run
RunJobStart ==
    /\ pc = "start"
    /\ LET r == resolve_dependencies(job)
       IN  IF r.err # ""
           THEN /\ pc' = "crashed"
                /\ tasks' = <<>>
           ELSE /\ pc' = "loop"
                /\ tasks' = r.resolved
    /\ idx' = 1
    /\ task_outputs' = EmptyMap
    /\ log' = Append(log, <<"job_start">>)
    /\ UNCHANGED <<job, dry_run, ignore_deps, calls, resolutions, python_ok, fnVars, poolVars>>

\* the part of a loop iteration that every iteration runs: original is tasks[idx],
\* r what resolve_placeholders(original, task_outputs) gave
IterationCommon(original, r) ==
    /\ resolutions' = Put(resolutions, TaskId(original),
                          [result |-> r, context |-> DOMAIN task_outputs])
    /\ idx' = idx + 1
    /\ UNCHANGED <<job, dry_run, ignore_deps, pc, tasks, python_ok, fnVars, poolVars>>

\* a `continue` branch that records no result for the task it skips: what
\* JobTerminates rules out
SkipIterationUnrecorded(original, r, task) ==
    /\ must_skip(task, task_outputs, ignore_deps)
    /\ log' = log \o resolution_log(original, r)
                  \o << <<"task", TaskId(task)>>, <<"status", TaskId(task), "skipped">> >>
    /\ UNCHANGED <<task_outputs, calls>>
    /\ IterationCommon(original, r)

\* the `continue` branch: `task` is skipped, a dependency of it having failed
SkipIteration(original, r, task) ==
    /\ must_skip(task, task_outputs, ignore_deps)
    /\ task_outputs' = Put(task_outputs, TaskId(task), SkipResult)
    /\ log' = log \o resolution_log(original, r)
                  \o << <<"task", TaskId(task)>>, <<"status", TaskId(task), "skipped">> >>
    /\ UNCHANGED calls
    /\ IterationCommon(original, r)

\* a call of run_task that run_job does not wait for: the loop goes on to the
\* next task before a result is recorded; what BackendsRunOneAtATime rules out
RunIterationNotAwaited(original, r, task, outcome, result) ==
    /\ ~must_skip(task, task_outputs, ignore_deps)
    /\ UNCHANGED task_outputs
    /\ log' = log \o resolution_log(original, r) \o run_task_log(task, dry_run, result)
    /\ calls' = Put(calls, TaskId(task),
                    [task |-> task, backend |-> BackendCalled(task, dry_run, python_ok),
                     outcome |-> outcome])
    /\ IterationCommon(original, r)

\* the other branch: run_task is called with `task`, its backend does `outcome`,
\* and the result is recorded
RunIteration(original, r, task, outcome, result) ==
    /\ ~must_skip(task, task_outputs, ignore_deps)
    /\ task_outputs' = Put(task_outputs, TaskId(task), result)
    /\ log' = log \o resolution_log(original, r) \o run_task_log(task, dry_run, result)
    /\ calls' = Put(calls, TaskId(task),
                    [task |-> task, backend |-> BackendCalled(task, dry_run, python_ok),
                     outcome |-> outcome])
    /\ IterationCommon(original, r)

\* the loop body from the skip test on, r being what resolve_placeholders gave
SkipAfter(original, r) == SkipIteration(original, r, task_after_resolution(original, r))

RunAfterWith(original, r, task) ==
    \E outcome \in TaskOutcomes(task, dry_run, python_ok) :
        RunIteration(original, r, task, outcome,
                     run_task(task, dry_run, python_ok, outcome))

RunAfter(original, r) == RunAfterWith(original, r, task_after_resolution(original, r))

\* one loop iteration that ends in `continue`
RunJobSkipTask ==
    /\ pc = "loop"
    /\ idx <= Len(tasks)
    /\ SkipAfter(tasks[idx], resolve_placeholders(tasks[idx], task_outputs))

\* one loop iteration that calls run_task and records its result
RunJobRunTask ==
    /\ pc = "loop"
    /\ idx <= Len(tasks)
    /\ RunAfter(tasks[idx], resolve_placeholders(tasks[idx], task_outputs))

\* the loop is over: run_job writes its last line and returns
RunJobComplete ==
    /\ pc = "loop"
    /\ idx > Len(tasks)
    /\ pc' = "done"
    /\ log' = Append(log, <<"job_complete">>)
    /\ UNCHANGED <<job, dry_run, ignore_deps, tasks, idx, task_outputs, calls,
                   resolutions, python_ok, fnVars, poolVars>>

----------------------------------------------------------------------------
(* The jobs the model runs *)

\* the largest number of tasks in a job
MaxTasks == 3

\* the id of the k-th declared task
TaskName(k) == "t" \o ToString(k)

\* the reference token of a field of a task's output
Token(tid, field) == "${outputs." \o tid \o "." \o field \o "}"

TaskTypes == <<"shell", "script", "function">>

\* a task definition of the configuration document; "args" and "depends_on" are
\* left out when empty
MkTask(id, type, deps, args) ==
    VDict(<< <<"id", VStr(id)>>, <<"type", VStr(type)>>,
             IF type = "shell" THEN <<"command", VStr("echo hi")>>
             ELSE IF type = "script" THEN <<"path", VStr("scripts/s.py")>>
             ELSE <<"path", VStr("mod.fn")>> >>
          \o (IF Len(args) = 0 THEN <<>> ELSE << <<"args", VList(args)>> >>)
          \o (IF Len(deps) = 0 THEN <<>>
              ELSE << <<"depends_on", VList([i \in 1..Len(deps) |-> VStr(deps[i])])>> >>))

RECURSIVE OrderedSubsets(_)
\* the sequences without repetition of elements of S
OrderedSubsets(S) ==
    {<<>>} \cup UNION {{<<x>> \o q : q \in OrderedSubsets(S \ {x})} : x \in S}

RECURSIVE DepLists(_, _)
\* the dependency lists of tasks k..n: each task lists other tasks, in any order
DepLists(k, n) ==
    IF k > n THEN {<<>>}
    ELSE {<<d>> \o rest : d \in OrderedSubsets((1..n) \ {k}), rest \in DepLists(k + 1, n)}

Range(q) == {q[i] : i \in 1..Len(q)}

RECURSIVE Reach(_, _, _)
\* the tasks reached from `front` in one or more depends_on steps of graph g
Reach(g, front, acc) ==
    LET next == UNION {Range(g[k]) : k \in front} \ acc
    IN  IF next = {} THEN acc ELSE Reach(g, next, acc \cup next)

Acyclic(g) == \A k \in 1..Len(g) : k \notin Reach(g, {k}, {})

\* every acyclic dependency graph on at most MaxTasks tasks
Graphs == UNION {{g \in DepLists(1, n) : Acyclic(g)} : n \in 1..MaxTasks}

\* the type of the k-th declared task
TypeAt(k) == TaskTypes[(k % 3) + 1]

\* a job over graph g: each task takes the field x of each of its dependencies
\* as an argument
GraphJob(g) ==
    [k \in 1..Len(g) |->
        MkTask(TaskName(k), TypeAt(k),
               [i \in 1..Len(g[k]) |-> TaskName(g[k][i])],
               [i \in 1..Len(g[k]) |-> VStr(Token(TaskName(g[k][i]), "x"))])]

GraphJobs == {GraphJob(g) : g \in Graphs}

\* the graphs whose tasks are independent, and the chains in which each task
\* depends on the one declared just before it
ChainGraphs ==
    UNION {{[k \in 1..n |-> <<>>], [k \in 1..n |-> IF k = 1 THEN <<>> ELSE <<k - 1>>]}
           : n \in 1..MaxTasks}

ArgTemplates == {"exact", "embedded", "mixed", "nested"}

\* the arguments of a consumer of task p's output
ConsumerArgs(template, p) ==
    CASE template = "exact"    -> <<VStr(Token(p, "x"))>>
      [] template = "embedded" -> <<VStr("v=" \o Token(p, "x") \o "!")>>
      [] template = "mixed"    -> <<VStr("v=" \o Token(p, "return_value.x")),
                                    VStr(Token("nope", "x"))>>
      [] template = "nested"   -> <<VDict(<< <<"k", VList(<<VStr(Token(p, "msg"))>>)>> >>)>>

\* a job of function tasks over graph g in which task c consumes task p's output
PlaceholderJob(g, c, template, p) ==
    [k \in 1..Len(g) |->
        MkTask(TaskName(k), "function",
               [i \in 1..Len(g[k]) |-> TaskName(g[k][i])],
               IF k = c THEN ConsumerArgs(template, p) ELSE <<>>)]

PlaceholderJobs ==
    UNION {{PlaceholderJob(g, c, template, p) :
               c \in 1..Len(g), template \in ArgTemplates,
               p \in {TaskName(k) : k \in 1..Len(g)} \cup {"nope"}}
           : g \in ChainGraphs}

\* the rings, in which each task depends on the next one and the last on the
\* first: validate_config has no cycle check and lets them through
RingGraphs == {[k \in 1..n |-> <<(k % n) + 1>>] : n \in 2..MaxTasks}

RingJobs == {GraphJob(g) : g \in RingGraphs}

\* task lists with a depends_on id that names no task of the list: what the
\* filters leave of a job when they keep a task and not its dependency
\* (--no-deps), alone, behind other tasks, and behind or before a cycle
DanglingJobs ==
    {<<MkTask("t2", "function", <<"t1">>, <<>>)>>,
     <<MkTask("t1", "shell", <<"gone">>, <<>>)>>,
     <<MkTask("t1", "shell", <<>>, <<>>), MkTask("t2", "script", <<"t1", "gone">>, <<>>),
       MkTask("t3", "function", <<"t2">>, <<>>)>>,
     <<MkTask("t1", "shell", <<"t2">>, <<>>), MkTask("t2", "shell", <<"t1", "gone">>, <<>>)>>,
     <<MkTask("t1", "shell", <<"t2">>, <<>>), MkTask("t2", "shell", <<"gone", "t1">>, <<>>)>>}

Jobs == GraphJobs \cup PlaceholderJobs \cup RingJobs \cup DanglingJobs

----------------------------------------------------------------------------
(* One run of run_job *)

NoCall == [fn |-> "none"]

Pending == [done |-> FALSE, val |-> 0]

Returned(val) == [done |-> TRUE, val |-> val]

Init ==
    /\ job \in Jobs
    /\ dry_run \in BOOLEAN
    /\ ignore_deps \in BOOLEAN
    /\ python_ok \in BOOLEAN
    /\ pc = "start"
    /\ tasks = <<>>
    /\ idx = 1
    /\ task_outputs = EmptyMap
    /\ calls = EmptyMap
    /\ log = <<>>
    /\ resolutions = EmptyMap
    /\ fn_in = NoCall
    /\ fn_out = Pending
    /\ config = <<>>
    /\ procs = <<>>
    /\ main_pc = "idle"
    /\ main_i = 1

Next ==
    \/ RunJobStart
    \/ RunJobSkipTask
    \/ RunJobRunTask
    \/ RunJobComplete

Spec == Init /\ [][Next]_vars

\* run_job has a step to take: it has been called and has not returned or raised
Running == pc \in {"start", "loop"}

\* run_job is one sequential loop: as long as the backend it waits for returns,
\* it takes its next step.  This is weak fairness of Next, with ENABLED <<Next>>_vars
\* written as the state predicate Running that it amounts to (StepAvailable below),
\* and a step of Next as any step that changes the state.
SpecLive == Init /\ [][Next]_vars /\ ([]<>(~Running) \/ []<><<vars' # vars>>_vars)

----------------------------------------------------------------------------
(* The task selector *)

\* the largest number of jobs in a configuration
MaxJobs == 2

\* the id of the k-th job of a configuration
JobName(k) == "job" \o ToString(k)

RECURSIVE SplitAt(_, _, _, _)
\* the pieces of s between the occurrences of the character sep from position i
\* on, `from` being where the current piece began
SplitAt(s, sep, i, from) ==
    IF i > Len(s) THEN <<SubSeq(s, from, Len(s))>>
    ELSE IF CharAt(s, i) = sep
         THEN <<SubSeq(s, from, i - 1)>> \o SplitAt(s, sep, i + 1, i + 1)
         ELSE SplitAt(s, sep, i + 1, from)

\* the white space json.loads skips and str.strip removes
WhiteSpace == {" ", "\t", "\n", "\r"}

RECURSIVE strip(_)
\* s.strip()
strip(s) ==
    IF Len(s) > 0 /\ CharAt(s, 1) \in WhiteSpace THEN strip(DropPrefix(s, 1))
    ELSE IF Len(s) > 0 /\ CharAt(s, Len(s)) \in WhiteSpace THEN strip(SubSeq(s, 1, Len(s) - 1))
    ELSE s

RECURSIVE normalize_id_list(_)
\* _normalize_id_list(values): every value is split at its commas, the pieces are
\* stripped and the empty ones dropped.  None and the empty list are both <<>>.
normalize_id_list(values) ==
    IF Len(values) = 0 THEN <<>>
    ELSE LET pieces == SplitAt(Head(values), ",", 1, 1)
             parts  == [i \in 1..Len(pieces) |-> strip(pieces[i])]
         IN  SelectSeq(parts, LAMBDA p : Len(p) > 0) \o normalize_id_list(Tail(values))

RECURSIVE glob_match(_, _, _, _)
\* whether name from position i on matches pat from position j on: "*" stands for
\* any run of characters, "?" for one character, any other character for itself
\* (the patterns of the model hold no "[")
glob_match(name, i, pat, j) ==
    IF j > Len(pat) THEN i > Len(name)
    ELSE IF CharAt(pat, j) = "*"
         THEN \/ glob_match(name, i, pat, j + 1)
              \/ i <= Len(name) /\ glob_match(name, i + 1, pat, j)
         ELSE /\ i <= Len(name)
              /\ CharAt(pat, j) = "?" \/ CharAt(pat, j) = CharAt(name, i)
              /\ glob_match(name, i + 1, pat, j + 1)

\* fnmatch.fnmatch(name, pat) where file names keep their case
fnmatch(name, pat) == glob_match(name, 1, pat, 1)

\* _fnmatch_any(name, patterns)
fnmatch_any(name, patterns) == \E k \in 1..Len(patterns) : fnmatch(name, patterns[k])

\* a _select_task_ids that leaves the exclusion globs out: what
\* SelectionIsIncludedMinusExcluded rules out
select_task_ids_keep_globbed(all_ids, include_ids, include_globs, exclude_ids, exclude_globs) ==
    LET ids      == Range(all_ids)
        inc      == {i \in ids : i \in Range(include_ids)}
                    \cup {i \in ids : fnmatch_any(i, include_globs)}
        selected == IF Len(include_ids) > 0 \/ Len(include_globs) > 0 THEN inc ELSE ids
    IN  selected \ Range(exclude_ids)

\* _select_task_ids(all_ids, include_ids, include_globs, exclude_ids, exclude_globs)
select_task_ids(all_ids, include_ids, include_globs, exclude_ids, exclude_globs) ==
    LET ids      == Range(all_ids)
        inc      == {i \in ids : i \in Range(include_ids)}
                    \cup {i \in ids : fnmatch_any(i, include_globs)}
        selected == IF Len(include_ids) > 0 \/ Len(include_globs) > 0 THEN inc ELSE ids
    IN  {i \in selected \ Range(exclude_ids) : ~fnmatch_any(i, exclude_globs)}

RECURSIVE list_of(_)
\* list(S) for a set S: its elements in some order
list_of(S) ==
    IF S = {} THEN <<>>
    ELSE LET x == CHOOSE y \in S : TRUE IN <<x>> \o list_of(S \ {x})

RECURSIVE closure_loop(_, _, _)
\* the loop `while stack` of _dependency_closure: [err |-> "" or the exception,
\* ids |-> result]
closure_loop(stack, result, task_map) ==
    IF Len(stack) = 0 THEN [err |-> "", ids |-> result]
    ELSE LET tid  == stack[Len(stack)]
             rest == SubSeq(stack, 1, Len(stack) - 1)
         IN  IF tid \in result THEN closure_loop(rest, result, task_map)
             ELSE IF tid \notin DOMAIN task_map THEN [err |-> "KeyError", ids |-> {}]
             ELSE LET deps == DependsOn(task_map[tid])
                  IN  closure_loop(rest \o [i \in 1..Len(deps) |-> deps[i].v],
                                   result \cup {tid}, task_map)

\* an iteration of the loop that passes over an id that is not in task_map
\* instead of raising: what ClosureEndsWithReachableIds rules out
closure_iteration_lenient(stack, result, task_map) ==
    LET tid  == stack[Len(stack)]
        rest == SubSeq(stack, 1, Len(stack) - 1)
    IN  IF tid \in result \/ tid \notin DOMAIN task_map
        THEN [err |-> "", stack |-> rest, result |-> result]
        ELSE LET deps == DependsOn(task_map[tid])
             IN  [err |-> "", stack |-> rest \o [i \in 1..Len(deps) |-> deps[i].v],
                  result |-> result \cup {tid}]

\* one iteration of `while stack` of _dependency_closure, for a stack that is not
\* empty: the locals after it, with err the exception if it raised
closure_iteration(stack, result, task_map) ==
    LET tid  == stack[Len(stack)]
        rest == SubSeq(stack, 1, Len(stack) - 1)
    IN  IF tid \in result THEN [err |-> "", stack |-> rest, result |-> result]
        ELSE IF tid \notin DOMAIN task_map
        THEN [err |-> "KeyError", stack |-> rest, result |-> result]
        ELSE LET deps == DependsOn(task_map[tid])
             IN  [err |-> "", stack |-> rest \o [i \in 1..Len(deps) |-> deps[i].v],
                  result |-> result \cup {tid}]

\* a _dependency_closure that adds the dependencies of the start ids and stops
\* there: what KeptIsDependencyClosure rules out
dependency_closure_one_level(start_ids, task_map) ==
    [err |-> "",
     ids |-> start_ids \cup
             UNION {{DependsOn(task_map[tid])[i].v : i \in 1..Len(DependsOn(task_map[tid]))}
                    : tid \in start_ids}]

\* a _dependency_closure that returns the start ids, the selection that the
\* exclusions left, and follows no dependency: what ExclusionsSpareDependencies
\* rules out
dependency_closure_start_only(start_ids, task_map) == [err |-> "", ids |-> start_ids]

\* _dependency_closure(start_ids, task_map)
dependency_closure(start_ids, task_map) == closure_loop(list_of(start_ids), {}, task_map)

\* raise SystemExit(<message>): msg is the fixed head of the message and names
\* holds what the message goes on to name
SystemExit(msg, names) == [t |-> "raise", v |-> "SystemExit", msg |-> msg, names |-> names]

\* a configuration that _filter_config_by_args returns: the jobs mapping as the
\* sequence of its <<job id, tasks>> pairs
Filtered(jobs) == [t |-> "config", v |-> jobs]

\* jobs[jid].get("tasks", [])
JobTasks(jobs, jid) == jobs[CHOOSE k \in 1..Len(jobs) : jobs[k][1] = jid][2]

\* new_jobs[jid] = job
put_job(new_jobs, jid, ts) ==
    IF \E k \in 1..Len(new_jobs) : new_jobs[k][1] = jid
    THEN [k \in 1..Len(new_jobs) |->
             IF new_jobs[k][1] = jid THEN <<jid, ts>> ELSE new_jobs[k]]
    ELSE Append(new_jobs, <<jid, ts>>)

RECURSIVE tasks_in_found_order(_, _)
\* the tasks with the chosen ids listed as the ids come out of the set, here
\* last task first: what FilteredKeepsOriginalOrder rules out
tasks_in_found_order(ts, ids) ==
    IF Len(ts) = 0 THEN <<>>
    ELSE tasks_in_found_order(Tail(ts), ids)
         \o (IF TaskId(Head(ts)) \in ids THEN <<Head(ts)>> ELSE <<>>)

\* [t for t in tasks if t["id"] in selected_task_ids]
tasks_with_ids(ts, ids) == SelectSeq(ts, LAMBDA t : TaskId(t) \in ids)

\* a test of line 176 that never finds the job among the explicitly selected
\* ones: what ExplicitEmptyJobWithInclusionIsFatal rules out
explicitly_selected_never(jid, f) == FALSE

\* a test of line 176 that takes every job for an explicitly selected one: what
\* ImplicitEmptyJobIsOmitted rules out
explicitly_selected_always(jid, f) == TRUE

\* explicitly_selected_jobs and jid in explicitly_selected_jobs
explicitly_selected(jid, f) == Len(f.explicit) > 0 /\ jid \in Range(f.explicit)

\* a last step of the round that puts the job in new_jobs whether the filters
\* left it a task or not: what KeptJobsHaveTasksUnlessEmptyBefore rules out
add_whatever_is_left(filtered) == [act |-> "keep", tasks |-> filtered]

\* `if filtered_tasks: new_jobs[jid] = {**job, "tasks": filtered_tasks}`
add_if_any_task(filtered) ==
    IF Len(filtered) > 0 THEN [act |-> "keep", tasks |-> filtered] ELSE [act |-> "drop"]

\* one round of the loop `for jid in selected_jobs`, for a job of tasks ts: the
\* exception it raises, or what it leaves of the job ("drop" for a job that is
\* not put in new_jobs).  f holds the normalised filters, with_deps and the
\* explicitly selected jobs.
filter_job(jid, ts, f) ==
    LET includes == Len(f.include_tasks) > 0 \/ Len(f.include_task_globs) > 0
        any      == includes \/ Len(f.exclude_tasks) > 0 \/ Len(f.exclude_task_globs) > 0
        selected == select_task_ids([i \in 1..Len(ts) |-> TaskId(ts[i])],
                                    f.include_tasks, f.include_task_globs,
                                    f.exclude_tasks, f.exclude_task_globs)
        closed   == IF f.with_deps /\ selected # {}
                    THEN dependency_closure(selected, index_tasks(ts))
                    ELSE [err |-> "", ids |-> selected]
        filtered == IF any THEN tasks_with_ids(ts, closed.ids) ELSE ts
    IN  IF Len(ts) = 0
        THEN IF includes
             THEN IF Len(f.explicit) > 0
                  THEN [act |-> "raise",
                        exc |-> SystemExit("No tasks available in explicitly selected job",
                                           <<jid>>)]
                  ELSE [act |-> "drop"]
             ELSE [act |-> "keep", tasks |-> ts]
        ELSE IF closed.err # "" THEN [act |-> "raise", exc |-> Raise(closed.err)]
        ELSE IF includes /\ Len(filtered) = 0
             THEN IF explicitly_selected(jid, f)
                  THEN [act |-> "raise",
                        exc |-> SystemExit("No tasks matched selection in explicitly selected job",
                                           <<jid>> \o f.include_tasks \o f.include_task_globs)]
                  ELSE [act |-> "drop"]
        ELSE add_if_any_task(filtered)

RECURSIVE filter_jobs(_, _, _, _)
\* the loop `for jid in selected_jobs`: the exception raised, or new_jobs
filter_jobs(selected_jobs, jobs, f, new_jobs) ==
    IF Len(selected_jobs) = 0 THEN Filtered(new_jobs)
    ELSE LET jid == Head(selected_jobs)
             r   == filter_job(jid, JobTasks(jobs, jid), f)
         IN  IF r.act = "raise" THEN r.exc
             ELSE filter_jobs(Tail(selected_jobs), jobs, f,
                              IF r.act = "keep" THEN put_job(new_jobs, jid, r.tasks)
                              ELSE new_jobs)

\* _filter_config_by_args(config, args), config being the jobs mapping
filter_config_by_args(jobs, args) ==
    IF Len(jobs) = 0 THEN Filtered(jobs)
    ELSE
    LET job_ids  == [k \in 1..Len(jobs) |-> jobs[k][1]]
        explicit == IF Len(args.jobs) > 0 THEN normalize_id_list(args.jobs) ELSE <<>>
        unknown  == SelectSeq(explicit, LAMBDA j : j \notin Range(job_ids))
        selected_jobs == IF Len(args.jobs) > 0 THEN explicit ELSE job_ids
        f == [include_tasks      |-> normalize_id_list(args.tasks),
              include_task_globs |-> normalize_id_list(args.task_globs),
              exclude_tasks      |-> normalize_id_list(args.exclude_tasks),
              exclude_task_globs |-> normalize_id_list(args.exclude_task_globs),
              with_deps          |-> ~args.no_deps,
              explicit           |-> explicit]
        out == filter_jobs(selected_jobs, jobs, f, <<>>)
    IN  IF Len(unknown) > 0 THEN SystemExit("Unknown job", <<unknown[1]>>)
        ELSE IF IsRaise(out) THEN out
        ELSE IF Len(out.v) = 0
             THEN SystemExit("No jobs/tasks matched the selection",
                             selected_jobs \o f.include_tasks \o f.include_task_globs)
        ELSE out

----------------------------------------------------------------------------
(* validate_config *)

\* what validate_config comes to: err is "" when it returns, else the class of
\* the exception, and msg the head of its message
Validated(err, msg) == [err |-> err, msg |-> msg]

\* the body of `for task in job["tasks"]` for one task
validate_task(task, ids) ==
    LET type == DictGet(task, "type", VNone)
        deps == DependsOn(task)
    IN  IF ~HasKey(task, "id") THEN Validated("AssertionError", "Missing task id")
        ELSE IF ~HasKey(task, "type") THEN Validated("AssertionError", "Missing task type")
        ELSE IF type.v \notin Range(TaskTypes)
             THEN Validated("AssertionError", "Unknown task type")
        ELSE IF type.v = "shell" /\ DictGet(task, "command", VNone).t # "str"
             THEN Validated("AssertionError", "missing 'command'")
        ELSE IF type.v # "shell" /\ ~HasKey(task, "path")
             THEN Validated("AssertionError", "missing 'path'")
        ELSE IF \E i \in 1..Len(deps) : deps[i].v \notin ids
             THEN Validated("AssertionError", "depends on unknown task")
        ELSE Validated("", "")

\* the body of `for job_id, job in config["jobs"].items()` for one job, which
\* has a list job.tasks under the key "tasks" or has none
validate_job(jb) ==
    IF ~jb.has_tasks THEN Validated("AssertionError", "Missing or invalid tasks")
    ELSE LET ts  == jb.tasks
             ids == [i \in 1..Len(ts) |-> DictGet(ts[i], "id", VNone)]
             map == {ids[i].v : i \in {j \in 1..Len(ids) : ids[j].t = "str"}}
             bad == {i \in 1..Len(ts) : validate_task(ts[i], map).err # ""}
         IN  IF Cardinality(Range(ids)) # Len(ids)
             THEN Validated("AssertionError", "Duplicate task ids")
             ELSE IF \E i \in 1..Len(ts) : ~HasKey(ts[i], "id")
             THEN Validated("KeyError", "id")
             ELSE IF bad = {} THEN Validated("", "")
             ELSE validate_task(ts[CHOOSE i \in bad : \A j \in bad : i <= j], map)

\* validate_config(config): the jobs are checked in their order and the first
\* failure is raised.  The document has c.jobs under the key "jobs" or has not
\* the key.
validate_config(c) ==
    IF ~c.has_jobs THEN Validated("AssertionError", "Missing 'jobs' key")
    ELSE LET bad == {k \in 1..Len(c.jobs) : validate_job(c.jobs[k][2]).err # ""}
         IN  IF bad = {} THEN Validated("", "")
             ELSE validate_job(c.jobs[CHOOSE k \in bad : \A j \in bad : k <= j][2])

----------------------------------------------------------------------------
(* Single calls of the resolvers and of the selector *)

\* the task lists of n tasks given to resolve_dependencies: one for every graph on
\* n tasks, cyclic ones included
DependencyInputs(n) ==
    {[k \in 1..n |-> MkTask(TaskName(k), TypeAt(k),
                            [i \in 1..Len(g[k]) |-> TaskName(g[k][i])], <<>>)]
        : g \in DepLists(1, n)}

\* further task lists given to resolve_dependencies: a dependency listed twice,
\* a dependency shared by two tasks that a fourth task joins (a diamond), a
\* task that depends on itself, and a dependency that is not in the list
SpecialDependencyInputs ==
    {<<MkTask("t1", "shell", <<"t2", "t2">>, <<>>), MkTask("t2", "shell", <<>>, <<>>)>>,
     <<MkTask("t1", "shell", <<>>, <<>>), MkTask("t2", "shell", <<"t1", "t1">>, <<>>),
       MkTask("t3", "shell", <<"t2", "t1", "t2">>, <<>>)>>,
     <<MkTask("t4", "shell", <<"t3", "t2">>, <<>>), MkTask("t3", "shell", <<"t1">>, <<>>),
       MkTask("t2", "shell", <<"t1">>, <<>>), MkTask("t1", "shell", <<>>, <<>>)>>,
     <<MkTask("t1", "shell", <<"t1">>, <<>>)>>,
     <<MkTask("t1", "shell", <<>>, <<>>), MkTask("t2", "shell", <<"gone">>, <<>>)>>}

\* return values of a producer task
SampleValues ==
    {VDict(<< <<"x", VInt(42)>>, <<"msg", VStr("ok")>>, <<"flag", VBool(TRUE)>>,
              <<"inner", VDict(<< <<"y", VInt(7)>> >>)>>,
              <<"return_value_n", VInt(5)>> >>),
     VDict(<< <<"_n", VInt(9)>> >>),
     VInt(7), VStr("txt"), VBool(FALSE), VList(<<VInt(1), VInt(2)>>)}

\* the run contexts: empty, or holding the result of a task "producer" that is a
\* function that returned, a function that failed, or a command
Contexts ==
    {EmptyMap}
    \cup {[id \in {"producer"} |-> FunctionResult(0, v)] : v \in SampleValues}
    \cup {[id \in {"producer"} |-> FunctionResult(1, VNone)],
          [id \in {"producer"} |-> ProcessResult(0)]}

\* field paths, as the sequences of their segments
FieldPaths ==
    {<<"x">>, <<"msg">>, <<"flag">>, <<"inner">>, <<"inner", "y">>, <<"return_value_n">>,
     <<"return_value">>, <<"return_value", "x">>, <<"return_value", "inner", "y">>,
     <<"x", "y">>, <<"zz">>}

\* the token that names task tid and the field path
PathToken(tid, path) == Token(tid, JoinStr(path, "."))

Shapes == {"exact", "embedded", "two", "in_list", "in_dict"}

\* an object that holds the token for (tid, path) in the given shape
ShapedObject(shape, tid, path) ==
    CASE shape = "exact"    -> VStr(PathToken(tid, path))
      [] shape = "embedded" -> VStr("Value: " \o PathToken(tid, path) \o "!")
      [] shape = "two"      -> VStr("a " \o PathToken(tid, path) \o " b "
                                    \o PathToken("nope", <<"x">>) \o " c")
      [] shape = "in_list"  -> VList(<<VStr("plain"), VInt(3), VStr(PathToken(tid, path))>>)
      [] shape = "in_dict"  ->
            VDict(<< <<"k", VList(<<VStr(PathToken(tid, path))>>)>>, <<"n", VNone>> >>)

\* strings that hold no token, and values that are no strings
PlainObjects ==
    {VStr("plain"), VStr(""), VStr("${outputs.producer}"), VStr("${outputs.producer.x"),
     VStr("${outputs..x}"), VStr("${kwargs.x} costs $5 {outputs.producer.x}"),
     VInt(3), VNone, VBool(TRUE)}

PlaceholderInputs ==
    {[fn |-> "resolve_placeholders", shape |-> shape, tid |-> tid, path |-> path,
      obj |-> ShapedObject(shape, tid, path), outputs |-> c]
        : shape \in Shapes, tid \in {"producer", "nope"}, path \in FieldPaths, c \in Contexts}
    \cup
    {[fn |-> "resolve_placeholders", shape |-> "plain", tid |-> "", path |-> <<>>,
      obj |-> o, outputs |-> c] : o \in PlainObjects, c \in Contexts}

\* the jobs of the configurations given to the selector: a chain b1 -> a2 -> a1,
\* two tasks that depend on each other, a job without tasks, and a task that
\* depends on a task that is not there
FilterJobs ==
    {<<MkTask("a1", "shell", <<>>, <<>>), MkTask("a2", "shell", <<"a1">>, <<>>),
       MkTask("b1", "shell", <<"a2">>, <<>>)>>,
     <<MkTask("b1", "shell", <<"c1">>, <<>>), MkTask("c1", "shell", <<"b1">>, <<>>)>>,
     <<>>,
     <<MkTask("c1", "shell", <<"gone">>, <<>>)>>}

\* the configurations of n jobs
FilterConfigs(n) == {[k \in 1..n |-> <<JobName(k), c[k]>>] : c \in [1..n -> FilterJobs]}

\* the values of -j, -t, -g, -x and -X: each a list of strings as the command line
\* gives them, <<>> for an option that was not given
JobOptions ==
    {<<>>, <<"job1">>, <<"job2">>, <<"job1, job2">>, <<"job2", "job1">>, <<"nope">>,
     <<"job1", "jbo2">>, <<",">>}

IncludeOptions == {<<>>, <<"b1">>, <<"zz">>, <<"a2,c1">>}

IncludeGlobOptions == {<<>>, <<"a*">>, <<"?1">>}

ExcludeOptions == {<<>>, <<"a1">>, <<"b1, c1">>}

ExcludeGlobOptions == {<<>>, <<"a*">>, <<"*">>}

FilterArgs ==
    [jobs : JobOptions, tasks : IncludeOptions, task_globs : IncludeGlobOptions,
     exclude_tasks : ExcludeOptions, exclude_task_globs : ExcludeGlobOptions,
     no_deps : BOOLEAN]

\* the calls of _select_task_ids: the ids of a job and the normalised filters
SelectInputs ==
    {[fn |-> "select_task_ids",
      all_ids |-> [i \in 1..Len(ts) |-> TaskId(ts[i])],
      include_ids |-> normalize_id_list(a.tasks),
      include_globs |-> normalize_id_list(a.task_globs),
      exclude_ids |-> normalize_id_list(a.exclude_tasks),
      exclude_globs |-> normalize_id_list(a.exclude_task_globs)]
        : ts \in FilterJobs \ {<<>>}, a \in FilterArgs}

\* a job with the task list ts, and a job without the key "tasks"
JobOf(ts) == [has_tasks |-> TRUE, tasks |-> ts]

JobWithoutTasks == [has_tasks |-> FALSE, tasks |-> <<>>]

\* the task lists of the jobs given to validate_config: sound ones (a chain, a
\* task that depends on itself, two tasks that depend on each other, no task),
\* and ones with a repeated id, a dependency that is no task of the job (t1 is a
\* task of other jobs), a task without id, without type, of an unknown type,
\* without command, and a task without id as the one defect of its job
ValidateTasks ==
    {<<MkTask("t1", "shell", <<>>, <<>>), MkTask("t2", "function", <<"t1">>, <<>>)>>,
     <<MkTask("t1", "shell", <<"t1">>, <<>>)>>,
     <<MkTask("t1", "shell", <<"t2">>, <<>>), MkTask("t2", "script", <<"t1">>, <<>>)>>,
     <<>>,
     <<MkTask("t1", "shell", <<>>, <<>>), MkTask("t1", "shell", <<>>, <<>>)>>,
     <<MkTask("u1", "shell", <<"t1">>, <<>>)>>,
     <<VDict(<< <<"type", VStr("shell")>>, <<"command", VStr("echo hi")>> >>),
       MkTask("t2", "shell", <<"gone">>, <<>>)>>,
     <<MkTask("t1", "shell", <<>>, <<>>),
       VDict(<< <<"type", VStr("shell")>>, <<"command", VStr("echo hi")>> >>)>>,
     <<VDict(<< <<"id", VStr("t1")>> >>)>>,
     <<VDict(<< <<"id", VStr("t1")>>, <<"type", VStr("java")>> >>)>>,
     <<VDict(<< <<"id", VStr("t1")>>, <<"type", VStr("shell")>> >>)>>}

ValidateJobs == {JobOf(ts) : ts \in ValidateTasks} \cup {JobWithoutTasks}

\* the documents of n jobs, and the one without the key "jobs"
ValidateInputs(n) ==
    {[fn |-> "validate_config",
      config |-> [has_jobs |-> TRUE, jobs |-> [k \in 1..n |-> <<JobName(k), c[k]>>]]]
        : c \in [1..n -> ValidateJobs]}
    \cup {[fn |-> "validate_config", config |-> [has_jobs |-> FALSE, jobs |-> <<>>]]}

InitCalls ==
    /\ \/ \E n \in 1..MaxTasks :
             fn_in \in {[fn |-> "resolve_dependencies", tasks |-> ts] : ts \in DependencyInputs(n)}
       \/ fn_in \in {[fn |-> "resolve_dependencies", tasks |-> ts] : ts \in SpecialDependencyInputs}
       \/ fn_in \in PlaceholderInputs
       \/ \E n \in 0..MaxJobs :
             fn_in \in {[fn |-> "filter_config_by_args", config |-> c, args |-> a]
                           : c \in FilterConfigs(n), a \in FilterArgs}
       \/ fn_in \in SelectInputs
       \/ \E n \in 0..MaxJobs : fn_in \in ValidateInputs(n)
    /\ fn_out = Pending
    /\ job = <<>>
    /\ dry_run = FALSE
    /\ ignore_deps = FALSE
    /\ python_ok = TRUE
    /\ pc = "idle"
    /\ tasks = <<>>
    /\ idx = 1
    /\ task_outputs = EmptyMap
    /\ calls = EmptyMap
    /\ log = <<>>
    /\ resolutions = EmptyMap
    /\ config = <<>>
    /\ procs = <<>>
    /\ main_pc = "idle"
    /\ main_i = 1

CallResolveDependencies ==
    /\ fn_in.fn = "resolve_dependencies"
    /\ ~fn_out.done
    /\ fn_out' = Returned(resolve_dependencies(fn_in.tasks))
    /\ UNCHANGED <<fn_in, jobVars, poolVars>>

CallResolvePlaceholders ==
    /\ fn_in.fn = "resolve_placeholders"
    /\ ~fn_out.done
    /\ fn_out' = Returned(resolve_placeholders(fn_in.obj, fn_in.outputs))
    /\ UNCHANGED <<fn_in, jobVars, poolVars>>

CallFilterConfig ==
    /\ fn_in.fn = "filter_config_by_args"
    /\ ~fn_out.done
    /\ fn_out' = Returned(filter_config_by_args(fn_in.config, fn_in.args))
    /\ UNCHANGED <<fn_in, jobVars, poolVars>>

CallSelectTaskIds ==
    /\ fn_in.fn = "select_task_ids"
    /\ ~fn_out.done
    /\ fn_out' = Returned(select_task_ids(fn_in.all_ids, fn_in.include_ids,
                                          fn_in.include_globs, fn_in.exclude_ids,
                                          fn_in.exclude_globs))
    /\ UNCHANGED <<fn_in, jobVars, poolVars>>

CallValidateConfig ==
    /\ fn_in.fn = "validate_config"
    /\ ~fn_out.done
    /\ fn_out' = Returned(validate_config(fn_in.config))
    /\ UNCHANGED <<fn_in, jobVars, poolVars>>

NextCalls ==
    \/ CallResolveDependencies
    \/ CallResolvePlaceholders
    \/ CallFilterConfig
    \/ CallSelectTaskIds
    \/ CallValidateConfig

SpecCalls == InitCalls /\ [][NextCalls]_vars

----------------------------------------------------------------------------
(* _dependency_closure, one iteration of its loop at a time *)

\* the task lists of a closure call: every dependency graph of up to MaxTasks
\* tasks, cycles included, with each depends_on in the order of the list, and
\* the lists with a repeated, a self- and an absent dependency
ClosureTasks ==
    {[k \in 1..Len(g) |-> MkTask(TaskName(k), TypeAt(k),
                                 [i \in 1..Len(g[k]) |-> TaskName(g[k][i])], <<>>)]
        : g \in {h \in UNION {DepLists(1, n) : n \in 1..MaxTasks} :
                    \A k \in 1..Len(h) : \A i, j \in 1..Len(h[k]) :
                        i < j => h[k][i] < h[k][j]}}
    \cup SpecialDependencyInputs \cup DanglingJobs

\* what list(start_ids) can be: no id, one id, or two ids in either order, of
\* the ids of the list and one that is no task of it
StartLists(ts) ==
    LET ids == {TaskId(ts[i]) : i \in 1..Len(ts)} \cup {"gone"}
    IN  {<<>>} \cup {<<a>> : a \in ids} \cup ({<<a, b>> : a, b \in ids} \ {<<a, a>> : a \in ids})

\* the call has been made and stands before the first test of `while stack`
InitClosure ==
    /\ \E ts \in ClosureTasks :
          fn_in \in {[fn |-> "dependency_closure", start |-> st, tasks |-> ts]
                        : st \in StartLists(ts)}
    /\ fn_out = [done |-> FALSE, val |-> [err |-> "", stack |-> fn_in.start, result |-> {}]]
    /\ job = <<>>
    /\ dry_run = FALSE
    /\ ignore_deps = FALSE
    /\ python_ok = TRUE
    /\ pc = "idle"
    /\ tasks = <<>>
    /\ idx = 1
    /\ task_outputs = EmptyMap
    /\ calls = EmptyMap
    /\ log = <<>>
    /\ resolutions = EmptyMap
    /\ config = <<>>
    /\ procs = <<>>
    /\ main_pc = "idle"
    /\ main_i = 1

\* `while stack` finds the stack not empty and the body is executed
ClosureIterate ==
    /\ fn_in.fn = "dependency_closure"
    /\ ~fn_out.done
    /\ Len(fn_out.val.stack) > 0
    /\ LET after == closure_iteration(fn_out.val.stack, fn_out.val.result,
                                      index_tasks(fn_in.tasks))
       IN  fn_out' = IF after.err # "" THEN Returned([err |-> after.err, ids |-> {}])
                     ELSE [done |-> FALSE, val |-> after]
    /\ UNCHANGED <<fn_in, jobVars, poolVars>>

\* `while stack` finds the stack empty: return result
ClosureReturn ==
    /\ fn_in.fn = "dependency_closure"
    /\ ~fn_out.done
    /\ Len(fn_out.val.stack) = 0
    /\ fn_out' = Returned([err |-> "", ids |-> fn_out.val.result])
    /\ UNCHANGED <<fn_in, jobVars, poolVars>>

NextClosure ==
    \/ ClosureIterate
    \/ ClosureReturn

\* a call that has not returned executes its next statement
SpecClosure ==
    /\ InitClosure
    /\ [][NextClosure]_vars
    /\ ([]<>(fn_out.done) \/ []<><<fn_out' # fn_out>>_vars)

----------------------------------------------------------------------------
(* run_all_jobs and its workers *)

\* the timestamp run_all_jobs takes once and passes to every worker
RunTimestamp == "2026-01-01T00-00-00"

\* a log file named after the run alone, shared by the jobs of the run: what
\* LogFilesArePrivate rules out
log_path_of_run(timestamp, job_id) == "dagrunner_" \o timestamp \o ".log"

\* run_job's log_path, a name in LOG_DIR
log_path(timestamp, job_id) == "dagrunner_" \o timestamp \o "_" \o job_id \o ".log"

\* The log files of a run are kept in `log`: for each path, the operations on
\* the file in their order, each with the worker that did it.  This is the file
\* system after worker k did the operations ops on the file at `path`.
file_after(files, path, k, ops) ==
    Put(files, path, (IF path \in DOMAIN files THEN files[path] ELSE <<>>)
                     \o [i \in 1..Len(ops) |-> <<k, ops[i]>>])

\* worker k, whose state is w, does the operations ops on the file it opened
\* as logf
LogFile(k, w, ops) == log' = file_after(log, log_path(w.timestamp, w.job_id), k, ops)

\* the state of a worker, a process that runs run_job(job_id, job, ...): where
\* run_job stands, its locals `tasks` and `task_outputs`, and as history what
\* each placeholder resolution was given and gave
NewWorker(job_id, ts) ==
    [job_id |-> job_id, job |-> ts, timestamp |-> RunTimestamp, pc |-> "start",
     tasks |-> <<>>, idx |-> 1, task_outputs |-> EmptyMap, seen |-> EmptyMap]

\* a run context that holds the results of the tasks of every worker, and so of
\* other jobs, those of the worker itself coming last: what ContextIsPrivate
\* rules out
shared_context(ps, k) ==
    [id \in UNION {DOMAIN ps[j].task_outputs : j \in 1..Len(ps)} |->
        IF id \in DOMAIN ps[k].task_outputs THEN ps[k].task_outputs[id]
        ELSE ps[CHOOSE j \in 1..Len(ps) : id \in DOMAIN ps[j].task_outputs].task_outputs[id]]

\* the run context of worker k: the dict that its own call of run_job created
worker_context(ps, k) == ps[k].task_outputs

\* worker w after its call of resolve_dependencies
worker_resolved(w, r) ==
    IF r.err # "" THEN [w EXCEPT !.pc = "crashed"]
    ELSE [w EXCEPT !.pc = "loop", !.tasks = r.resolved]

\* worker w after a loop iteration on `original` that was given the run context
\* ctx, in which resolve_placeholders gave r, and that recorded `result`
worker_recorded(w, ctx, original, r, result) ==
    [w EXCEPT !.task_outputs = Put(w.task_outputs, TaskId(original), result),
              !.seen = Put(w.seen, TaskId(original), [context |-> ctx, result |-> r]),
              !.idx = w.idx + 1]

\* the for loop of run_all_jobs: a worker is created for the next job and started
RunAllStart ==
    /\ main_pc = "starting"
    /\ main_i <= Len(config)
    /\ procs' = Append(procs, NewWorker(config[main_i][1], config[main_i][2]))
    /\ main_i' = main_i + 1
    /\ UNCHANGED <<config, main_pc, jobVars, fnVars>>

\* the for loop is over: run_all_jobs goes on to join the workers
RunAllStarted ==
    /\ main_pc = "starting"
    /\ main_i > Len(config)
    /\ main_pc' = "joining"
    /\ main_i' = 1
    /\ UNCHANGED <<config, procs, jobVars, fnVars>>

\* a join that returns at once, whether the worker has ended or not: what
\* OneWorkerPerJob rules out
RunAllJoinNoWait ==
    /\ main_pc = "joining"
    /\ main_i <= Len(procs)
    /\ main_i' = main_i + 1
    /\ UNCHANGED <<config, procs, main_pc, jobVars, fnVars>>

\* p.join(): it returns when the worker has ended, by return or by an exception
RunAllJoin ==
    /\ main_pc = "joining"
    /\ main_i <= Len(procs)
    /\ procs[main_i].pc \in {"done", "crashed"}
    /\ main_i' = main_i + 1
    /\ UNCHANGED <<config, procs, main_pc, jobVars, fnVars>>

\* every worker is joined: run_all_jobs returns
RunAllReturn ==
    /\ main_pc = "joining"
    /\ main_i > Len(procs)
    /\ main_pc' = "returned"
    /\ UNCHANGED <<config, procs, main_i, jobVars, fnVars>>

\* what no step of a worker changes
WorkerFrame ==
    UNCHANGED <<config, main_pc, main_i, job, dry_run, ignore_deps, pc, tasks, idx,
                task_outputs, calls, resolutions, python_ok, fnVars>>

\* worker k enters run_job: it opens its log file, writes the head of the log
\* and calls resolve_dependencies; an exception of that call leaves the `with`
\* block, which closes the file
WorkerStart(k) ==
    /\ procs[k].pc = "start"
    /\ procs' = [procs EXCEPT ![k] = worker_resolved(@, resolve_dependencies(@.job))]
    /\ LogFile(k, procs[k], IF resolve_dependencies(procs[k].job).err # ""
                            THEN <<"open", "write", "close">> ELSE <<"open", "write">>)
    /\ WorkerFrame

\* one loop iteration of worker k that ends in `continue`
WorkerSkipWith(k, ctx, original, r) ==
    /\ must_skip(task_after_resolution(original, r), ctx, ignore_deps)
    /\ procs' = [procs EXCEPT ![k] = worker_recorded(@, ctx, original, r, SkipResult)]
    /\ LogFile(k, procs[k], <<"write">>)
    /\ WorkerFrame

WorkerSkipTask(k) ==
    /\ procs[k].pc = "loop"
    /\ procs[k].idx <= Len(procs[k].tasks)
    /\ WorkerSkipWith(k, worker_context(procs, k), procs[k].tasks[procs[k].idx],
                      resolve_placeholders(procs[k].tasks[procs[k].idx],
                                           worker_context(procs, k)))

\* one loop iteration of worker k that calls run_task and records its result
WorkerRunWith(k, ctx, original, r, task) ==
    /\ ~must_skip(task, ctx, ignore_deps)
    /\ \E outcome \in TaskOutcomes(task, dry_run, python_ok) :
          procs' = [procs EXCEPT ![k] =
                       worker_recorded(@, ctx, original, r,
                                       run_task(task, dry_run, python_ok, outcome))]
    /\ LogFile(k, procs[k], <<"write">>)
    /\ WorkerFrame

WorkerRunAfter(k, ctx, original, r) ==
    WorkerRunWith(k, ctx, original, r, task_after_resolution(original, r))

WorkerRunTask(k) ==
    /\ procs[k].pc = "loop"
    /\ procs[k].idx <= Len(procs[k].tasks)
    /\ WorkerRunAfter(k, worker_context(procs, k), procs[k].tasks[procs[k].idx],
                      resolve_placeholders(procs[k].tasks[procs[k].idx],
                                           worker_context(procs, k)))

\* the loop of worker k is over: run_job writes the last line, the `with` block
\* closes the file, run_job returns and the process ends
WorkerComplete(k) ==
    /\ procs[k].pc = "loop"
    /\ procs[k].idx > Len(procs[k].tasks)
    /\ procs' = [procs EXCEPT ![k].pc = "done"]
    /\ LogFile(k, procs[k], <<"write", "close">>)
    /\ WorkerFrame

\* the jobs of the configurations: all of them name their tasks t1 and t2
PoolJobs ==
    {<<MkTask("t1", "function", <<>>, <<>>)>>,
     <<MkTask("t1", "function", <<>>, <<>>),
       MkTask("t2", "function", <<"t1">>, <<VStr("v=" \o Token("t1", "x"))>>)>>,
     <<MkTask("t1", "shell", <<"t2">>, <<>>), MkTask("t2", "shell", <<"t1">>, <<>>)>>}

\* the configurations of at most MaxJobs jobs, the one without jobs included
Configs ==
    UNION {{[k \in 1..n |-> <<JobName(k), c[k]>>] : c \in [1..n -> PoolJobs]}
           : n \in 0..MaxJobs}

InitAll ==
    /\ config \in Configs
    /\ procs = <<>>
    /\ main_pc = "starting"
    /\ main_i = 1
    /\ dry_run \in BOOLEAN
    /\ ignore_deps \in BOOLEAN
    /\ python_ok = TRUE
    /\ job = <<>>
    /\ pc = "idle"
    /\ tasks = <<>>
    /\ idx = 1
    /\ task_outputs = EmptyMap
    /\ calls = EmptyMap
    /\ log = <<>>
    /\ resolutions = EmptyMap
    /\ fn_in = NoCall
    /\ fn_out = Pending

NextAll ==
    \/ RunAllStart
    \/ RunAllStarted
    \/ RunAllJoin
    \/ RunAllReturn
    \/ \E k \in 1..Len(procs) : WorkerStart(k)
    \/ \E k \in 1..Len(procs) : WorkerSkipTask(k)
    \/ \E k \in 1..Len(procs) : WorkerRunTask(k)
    \/ \E k \in 1..Len(procs) : WorkerComplete(k)

SpecAll == InitAll /\ [][NextAll]_vars

----------------------------------------------------------------------------
(* run_all_jobs when a backend call does not return *)

\* Worker k is blocked by a backend call that never returns if any worker is
\* in such a call, as it would be if the jobs took turns in one thread of
\* control: what HungTaskBlocksOnlyItsJob rules out
blocked_by_any_backend(ps, k) == \E j \in 1..Len(ps) : ps[j].pc = "hung"

\* worker k is blocked in subprocess.run, which run_shell, run_script and
\* run_function call without a timeout: each worker is a process of its own, so
\* it waits for the child process that it started itself and for no other
blocked_by_backend(ps, k) == ps[k].pc = "hung"

\* a loop iteration of worker k that calls run_task, whose backend starts a
\* child process that never ends: run_task does not return
WorkerHangsWith(k, ctx, task) ==
    /\ ~must_skip(task, ctx, ignore_deps)
    /\ BackendCalled(task, dry_run, python_ok) # "none"
    /\ procs' = [procs EXCEPT ![k].pc = "hung"]
    /\ LogFile(k, procs[k], <<"write">>)
    /\ WorkerFrame

WorkerHangs(k) ==
    /\ procs[k].pc = "loop"
    /\ procs[k].idx <= Len(procs[k].tasks)
    /\ WorkerHangsWith(k, worker_context(procs, k),
                       task_after_resolution(
                           procs[k].tasks[procs[k].idx],
                           resolve_placeholders(procs[k].tasks[procs[k].idx],
                                                worker_context(procs, k))))

\* worker k is scheduled and is not blocked
Unblocked(k) == k <= Len(procs) /\ ~blocked_by_backend(procs, k)

\* worker k has a step to take
WorkerCanStep(k) == Unblocked(k) /\ procs[k].pc \in {"start", "loop"}

\* run_all_jobs has a step to take: it is in its for loop, or the worker it
\* joins has ended, or it has joined them all
MainCanStep ==
    \/ main_pc = "starting"
    \/ main_pc = "joining" /\ main_i > Len(procs)
    \/ main_pc = "joining" /\ main_i <= Len(procs) /\ procs[main_i].pc \in {"done", "crashed"}

NextHang ==
    \/ RunAllStart
    \/ RunAllStarted
    \/ RunAllJoin
    \/ RunAllReturn
    \/ \E k \in 1..Len(procs) : Unblocked(k) /\ WorkerStart(k)
    \/ \E k \in 1..Len(procs) : Unblocked(k) /\ WorkerSkipTask(k)
    \/ \E k \in 1..Len(procs) : Unblocked(k) /\ WorkerRunTask(k)
    \/ \E k \in 1..Len(procs) : Unblocked(k) /\ WorkerHangs(k)
    \/ \E k \in 1..Len(procs) : Unblocked(k) /\ WorkerComplete(k)

\* Fair scheduling: run_all_jobs and every worker are processes of the
\* operating system, each of which goes on as long as it has a step to take.
\* This is weak fairness of the steps of each process, the enabling condition
\* being spelt out (MainCanStep, WorkerCanStep) and a step of a process being
\* any step that changes the state of that process.
SpecHang ==
    /\ InitAll
    /\ [][NextHang]_vars
    /\ ([]<>(~MainCanStep) \/ []<><<main_pc' # main_pc \/ main_i' # main_i>>_vars)
    /\ \A k \in 1..MaxJobs :
          ([]<>(~WorkerCanStep(k)) \/ []<><<WorkerCanStep(k) /\ procs'[k] # procs[k]>>_vars)

----------------------------------------------------------------------------
(* main: the subcommands run and validate *)

\* the documents of n jobs that main loads: jobs that run_all_jobs can run, a job
\* with a repeated task id and a job with a dependency that is no task
MainDocuments(n) ==
    {[has_jobs |-> TRUE, jobs |-> [k \in 1..n |-> <<JobName(k), JobOf(c[k])>>]]
        : c \in [1..n -> PoolJobs \cup {<<MkTask("t1", "shell", <<>>, <<>>),
                                          MkTask("t1", "shell", <<>>, <<>>)>>,
                                        <<MkTask("t1", "shell", <<"gone">>, <<>>)>>}]}

\* the options -j and -t of the command line, the other filters not being given
MainArgs ==
    [jobs : {<<>>, <<"job1">>, <<"nope">>}, tasks : {<<>>, <<"t2">>, <<"zz">>},
     task_globs : {<<>>}, exclude_tasks : {<<>>}, exclude_task_globs : {<<>>},
     no_deps : {FALSE}]

\* main has parsed the command line and loaded the document
InitMain ==
    /\ \E n \in 0..MaxJobs :
          fn_in \in {[fn |-> "main", command |-> cmd, document |-> d, args |-> a]
                        : cmd \in {"run", "validate"}, d \in MainDocuments(n), a \in MainArgs}
    /\ fn_out = Pending
    /\ config = <<>>
    /\ procs = <<>>
    /\ main_pc = "loaded"
    /\ main_i = 1
    /\ dry_run \in BOOLEAN
    /\ ignore_deps = FALSE
    /\ python_ok = TRUE
    /\ job = <<>>
    /\ pc = "idle"
    /\ tasks = <<>>
    /\ idx = 1
    /\ task_outputs = EmptyMap
    /\ calls = EmptyMap
    /\ log = <<>>
    /\ resolutions = EmptyMap

\* the process ends with this exit status
exit_with(status) ==
    /\ main_pc' = "exited"
    /\ fn_out' = Returned(status)
    /\ UNCHANGED <<fn_in, config, procs, main_i, jobVars>>

\* validate_config(config) in the subcommands run and validate.  run turns an
\* AssertionError into SystemExit(<message>), which ends the process with status
\* 1; validate prints it and returns, and so does it print that the document is
\* valid; any other exception is not caught and ends the process with status 1.
MainValidate ==
    /\ main_pc = "loaded"
    /\ LET v == validate_config(fn_in.document)
       IN  IF v.err = "" /\ fn_in.command = "run"
           THEN /\ main_pc' = "validated"
                /\ UNCHANGED <<fn_in, fn_out, config, procs, main_i, jobVars>>
           ELSE exit_with(IF v.err = "" \/ (v.err = "AssertionError" /\ fn_in.command = "validate")
                          THEN 0 ELSE 1)

\* config = _filter_config_by_args(config, args) in run: SystemExit, and KeyError
\* turned into SystemExit, end the process with status 1; otherwise
\* run_all_jobs is called with the filtered configuration
MainFilter ==
    /\ main_pc = "validated"
    /\ LET d == fn_in.document.jobs
           r == filter_config_by_args([k \in 1..Len(d) |-> <<d[k][1], d[k][2].tasks>>],
                                      fn_in.args)
       IN  IF IsRaise(r) THEN exit_with(1)
           ELSE /\ config' = r.v
                /\ main_pc' = "starting"
                /\ UNCHANGED <<fn_in, fn_out, procs, main_i, jobVars>>

\* run_all_jobs has returned and main returns: the process ends with status 0
MainReturn ==
    /\ main_pc = "returned"
    /\ exit_with(0)

NextMain ==
    \/ MainValidate
    \/ MainFilter
    \/ MainReturn
    \/ RunAllStart
    \/ RunAllStarted
    \/ RunAllJoin
    \/ RunAllReturn
    \/ \E k \in 1..Len(procs) : WorkerStart(k)
    \/ \E k \in 1..Len(procs) : WorkerSkipTask(k)
    \/ \E k \in 1..Len(procs) : WorkerRunTask(k)
    \/ \E k \in 1..Len(procs) : WorkerComplete(k)

SpecMain == InitMain /\ [][NextMain]_vars

----------------------------------------------------------------------------
(* What run_task hands to run_shell *)

KwargPrefix == "${kwargs."

\* p in s, for a non-empty p
Contains(s, p) == \E i \in 1..(Len(s) - Len(p) + 1) : SubSeq(s, i, i + Len(p) - 1) = p

\* _KWARG_RE.match(s, i): the match that starts at position i, if there is one.
\* "}" is not of the key's class, so the greedy run is the only candidate.
kwarg_match(s, i) ==
    LET p  == Len(KwargPrefix)
        k0 == i + p
        k1 == RunEnd(s, k0, TidChars)
        ok == /\ i + p - 1 <= Len(s)
              /\ SubSeq(s, i, i + p - 1) = KwargPrefix
              /\ k1 >= k0
              /\ k1 + 1 <= Len(s) /\ CharAt(s, k1 + 1) = "}"
    IN  IF ok THEN [ok |-> TRUE, key |-> SubSeq(s, k0, k1), stop |-> k1 + 1]
        ELSE [ok |-> FALSE, key |-> "", stop |-> 0]

\* run_task._sub_kw(m), m being the match found at position i of s
sub_kw(s, i, m, kwargs_map) ==
    IF HasKey(kwargs_map, m.key)
    THEN IF Item(kwargs_map, m.key) = VNone THEN "" ELSE PyStr(Item(kwargs_map, m.key))
    ELSE SubSeq(s, i, m.stop)

RECURSIVE kwarg_sub(_, _, _)
\* _KWARG_RE.sub(_sub_kw, s) from position i on
kwarg_sub(s, i, kwargs_map) ==
    IF i > Len(s) THEN ""
    ELSE LET m == kwarg_match(s, i)
         IN  IF m.ok
             THEN sub_kw(s, i, m, kwargs_map) \o kwarg_sub(s, m.stop + 1, kwargs_map)
             ELSE CharAt(s, i) \o kwarg_sub(s, i + 1, kwargs_map)

\* the characters shlex.quote leaves alone: [\w@%+=:,./-]
ShellSafeChars == Letters \cup Digits \cup {"_", "@", "%", "+", "=", ":", ",", ".", "/", "-"}

RECURSIVE shlex_escape(_)
\* s.replace("'", "'\"'\"'")
shlex_escape(s) ==
    IF s = "" THEN ""
    ELSE (IF CharAt(s, 1) = "'" THEN "'\"'\"'" ELSE CharAt(s, 1)) \o shlex_escape(DropPrefix(s, 1))

\* _quote_token_for_shell(token): subprocess.list2cmdline([s]) on Windows, for
\* an s without double quotes and backslashes, and shlex.quote(s) elsewhere
quote_token_for_shell(token, windows) ==
    LET s == IF token = VNone THEN "" ELSE PyStr(token)
    IN  IF windows
        THEN IF s = "" \/ Contains(s, " ") \/ Contains(s, "\t") THEN "\"" \o s \o "\"" ELSE s
        ELSE IF s = "" THEN "''"
        ELSE IF \A i \in 1..Len(s) : CharAt(s, i) \in ShellSafeChars THEN s
        ELSE "'" \o shlex_escape(s) \o "'"

RECURSIVE kwarg_tokens(_, _)
\* the tokens `--k`, v of the pairs q of kwargs_map, in the dict's order
kwarg_tokens(q, windows) ==
    IF q = <<>> THEN <<>>
    ELSE <<quote_token_for_shell(VStr("--" \o q[1][1]), windows),
           quote_token_for_shell(q[1][2], windows)>> \o kwarg_tokens(Tail(q), windows)

RECURSIVE arg_tokens(_, _)
arg_tokens(q, windows) ==
    IF q = <<>> THEN <<>>
    ELSE <<quote_token_for_shell(q[1], windows)>> \o arg_tokens(Tail(q), windows)

\* the command line run_task builds for a shell task and passes to run_shell
shell_command(task, windows) ==
    LET base_cmd   == DictGet(task, "command", VStr("")).v
        args_list  == DictGet(task, "args", VNone)
        kwargs_map == IF DictGet(task, "kwargs", VNone) = VNone
                      THEN VDict(<<>>) ELSE Item(task, "kwargs")
        embedded   == Contains(base_cmd, KwargPrefix)
        final_cmd  == IF embedded THEN kwarg_sub(base_cmd, 1, kwargs_map) ELSE base_cmd
        extra      == arg_tokens(IF args_list = VNone THEN <<>> ELSE args_list.v, windows)
                      \o (IF embedded THEN <<>> ELSE kwarg_tokens(kwargs_map.v, windows))
    IN  IF extra = <<>> THEN final_cmd ELSE final_cmd \o " " \o JoinStr(extra, " ")

----------------------------------------------------------------------------
(* run_function: the launcher's output and what the parent reads from it *)

\* the marker the launcher prints before the serialized return value
Marker == "<<RETURN_VALUE_JSON>>"

RECURSIVE json_escape(_)
\* the body of the JSON string json.dumps writes for s, for ASCII text
json_escape(s) ==
    IF s = "" THEN ""
    ELSE (CASE CharAt(s, 1) = "\"" -> "\\\""
            [] CharAt(s, 1) = "\\" -> "\\\\"
            [] CharAt(s, 1) = "\n" -> "\\n"
            [] OTHER -> CharAt(s, 1))
         \o json_escape(DropPrefix(s, 1))

RECURSIVE json_dumps(_)
\* json.dumps(x, default=str), for the values of the model
json_dumps(x) ==
    CASE x.t = "none" -> "null"
      [] x.t = "int"  -> ToString(x.v)
      [] x.t = "bool" -> IF x.v THEN "true" ELSE "false"
      [] x.t = "str"  -> "\"" \o json_escape(x.v) \o "\""
      [] x.t = "list" -> "[" \o JoinStr([i \in 1..Len(x.v) |-> json_dumps(x.v[i])], ", ") \o "]"
      [] x.t = "dict" ->
            "{" \o JoinStr([i \in 1..Len(x.v) |->
                              "\"" \o json_escape(x.v[i][1]) \o "\": " \o json_dumps(x.v[i][2])],
                           ", ") \o "}"

\* what a failed parse step gives
NoParse == [ok |-> FALSE, val |-> VNone, stop |-> 0]

\* s holds p at position i
HoldsAt(s, i, p) == i + Len(p) - 1 <= Len(s) /\ SubSeq(s, i, i + Len(p) - 1) = p

RECURSIVE json_chars(_, _, _)
\* the rest of a JSON string from position i on, acc being what was read of it:
\* up to the closing quote, `\"`, `\\` and `\n` unescaped
json_chars(s, i, acc) ==
    IF i > Len(s) \/ CharAt(s, i) = "\n" THEN NoParse
    ELSE IF CharAt(s, i) = "\"" THEN [ok |-> TRUE, val |-> VStr(acc), stop |-> i]
    ELSE IF CharAt(s, i) # "\\" THEN json_chars(s, i + 1, acc \o CharAt(s, i))
    ELSE IF HoldsAt(s, i + 1, "\"") THEN json_chars(s, i + 2, acc \o "\"")
    ELSE IF HoldsAt(s, i + 1, "\\") THEN json_chars(s, i + 2, acc \o "\\")
    ELSE IF HoldsAt(s, i + 1, "n") THEN json_chars(s, i + 2, acc \o "\n")
    ELSE NoParse

RECURSIVE DecimalValue(_)
\* int(s) for a string of digits
DecimalValue(s) ==
    IF s = "" THEN 0
    ELSE 10 * DecimalValue(SubSeq(s, 1, Len(s) - 1))
         + (CHOOSE d \in 0..9 : ToString(d) = CharAt(s, Len(s)))

\* a JSON integer at position i: an optional "-", then "0" or digits that do not
\* start with "0"
json_int(s, i) ==
    LET d0 == IF HoldsAt(s, i, "-") THEN i + 1 ELSE i
        d1 == IF HoldsAt(s, d0, "0") THEN d0 ELSE RunEnd(s, d0, Digits)
    IN  IF d1 < d0 THEN NoParse
        ELSE [ok |-> TRUE, stop |-> d1,
              val |-> VInt((IF d0 > i THEN -1 ELSE 1) * DecimalValue(SubSeq(s, d0, d1)))]

RECURSIVE json_value(_, _), json_items(_, _, _), json_pairs(_, _, _)
\* the JSON value that starts at position i of s, white space skipped
json_value(s, i) ==
    IF i > Len(s) THEN NoParse
    ELSE IF CharAt(s, i) \in WhiteSpace THEN json_value(s, i + 1)
    ELSE IF HoldsAt(s, i, "null") THEN [ok |-> TRUE, val |-> VNone, stop |-> i + 3]
    ELSE IF HoldsAt(s, i, "true") THEN [ok |-> TRUE, val |-> VBool(TRUE), stop |-> i + 3]
    ELSE IF HoldsAt(s, i, "false") THEN [ok |-> TRUE, val |-> VBool(FALSE), stop |-> i + 4]
    ELSE IF CharAt(s, i) = "\"" THEN json_chars(s, i + 1, "")
    ELSE IF CharAt(s, i) = "[" THEN json_items(s, i + 1, <<>>)
    ELSE IF CharAt(s, i) = "{" THEN json_pairs(s, i + 1, <<>>)
    ELSE json_int(s, i)

\* the items of a JSON array from position i on, acc being the items read
json_items(s, i, acc) ==
    IF i > Len(s) THEN NoParse
    ELSE IF CharAt(s, i) \in WhiteSpace THEN json_items(s, i + 1, acc)
    ELSE IF CharAt(s, i) = "]" /\ acc = <<>>
         THEN [ok |-> TRUE, val |-> VList(<<>>), stop |-> i]
    ELSE LET item == json_value(s, i)
             next == RunEnd(s, item.stop + 1, WhiteSpace) + 1
         IN  IF ~item.ok THEN NoParse
             ELSE IF HoldsAt(s, next, "]")
                  THEN [ok |-> TRUE, val |-> VList(Append(acc, item.val)), stop |-> next]
             ELSE IF HoldsAt(s, next, ",") THEN json_items(s, next + 1, Append(acc, item.val))
             ELSE NoParse

\* the pairs of a JSON object from position i on, acc being the pairs read; a
\* key read twice keeps its first place and takes the later value
json_pairs(s, i, acc) ==
    IF i > Len(s) THEN NoParse
    ELSE IF CharAt(s, i) \in WhiteSpace THEN json_pairs(s, i + 1, acc)
    ELSE IF CharAt(s, i) = "}" /\ acc = <<>>
         THEN [ok |-> TRUE, val |-> VDict(<<>>), stop |-> i]
    ELSE IF CharAt(s, i) # "\"" THEN NoParse
    ELSE LET key   == json_chars(s, i + 1, "")
             colon == RunEnd(s, key.stop + 1, WhiteSpace) + 1
             item  == json_value(s, colon + 1)
             next  == RunEnd(s, item.stop + 1, WhiteSpace) + 1
             pairs == DictSet(VDict(acc), key.val.v, item.val).v
         IN  IF ~key.ok \/ ~HoldsAt(s, colon, ":") THEN NoParse
             ELSE IF ~item.ok THEN NoParse
             ELSE IF HoldsAt(s, next, "}")
                  THEN [ok |-> TRUE, val |-> VDict(pairs), stop |-> next]
             ELSE IF HoldsAt(s, next, ",") THEN json_pairs(s, next + 1, pairs)
             ELSE NoParse

\* json.loads(s): one value and white space around it, JSONDecodeError otherwise
json_loads(s) ==
    LET r == json_value(s, 1)
    IN  IF r.ok /\ RunEnd(s, r.stop + 1, WhiteSpace) = Len(s) THEN r.val
        ELSE Raise("JSONDecodeError")

\* s.rfind(p): the position of the last occurrence of p in s, which holds one
rfind(s, p) == CHOOSE i \in 1..Len(s) : HoldsAt(s, i, p) /\ \A j \in (i + 1)..Len(s) : ~HoldsAt(s, j, p)

\* what the function named by a function task does when the launcher calls it:
\* it prints `printed`, then returns rv, raises, or leaves through sys.exit(code)
Returns(printed, rv) == [kind |-> "return", printed |-> printed, rv |-> rv, code |-> 0]

Raises(printed) == [kind |-> "raise", printed |-> printed, rv |-> VNone, code |-> 1]

Exits(printed, code) == [kind |-> "exit", printed |-> printed, rv |-> VNone, code |-> code]

\* the launcher: the completed process subprocess.run gives for the behaviour b
launcher(b) ==
    [returncode |-> b.code,
     stdout |-> IF b.kind = "return" THEN b.printed \o Marker \o json_dumps(b.rv) \o "\n"
                ELSE b.printed,
     stderr |-> IF b.kind = "raise" THEN "Traceback" ELSE ""]

\* run_function from the return of subprocess.run on: the result it makes of the
\* completed process
run_function(proc) ==
    IF proc.returncode # 0
    THEN VDict(<< <<"stdout", VStr(proc.stdout)>>, <<"stderr", VStr(proc.stderr)>>,
                  <<"return_value", VNone>>, <<"returncode", VInt(proc.returncode)>> >>)
    ELSE IF ~Contains(proc.stdout, Marker)
    THEN VDict(<< <<"stdout", VStr(proc.stdout)>>, <<"stderr", VStr(proc.stderr)>>,
                  <<"return_value", VNone>>, <<"returncode", VInt(0)>> >>)
    ELSE LET i == rfind(proc.stdout, Marker)
             payload == strip(SubSeq(proc.stdout, i + Len(Marker), Len(proc.stdout)))
         IN  VDict(<< <<"stdout", VStr(SubSeq(proc.stdout, 1, i - 1))>>,
                      <<"stderr", VStr(proc.stderr)>>,
                      <<"return_value", IF IsRaise(json_loads(payload)) THEN VStr(payload)
                                        ELSE json_loads(payload)>>,
                      <<"returncode", VInt(0)>> >>)

----------------------------------------------------------------------------
(* The interpreter and the environment of a script task *)

\* A path is the sequence of its components, all paths being absolute; <<>> is
\* also what stands for None and for an unset environment value.
NoPath == <<>>

\* Path.name and Path.parent
PathName(p) == IF p = <<>> THEN "" ELSE p[Len(p)]

PathParent(p) == IF p = <<>> THEN <<>> ELSE SubSeq(p, 1, Len(p) - 1)

\* str(path)
PathStr(p) == "/" \o JoinStr(p, "/")

\* os.pathsep
PathSep == ":"

\* "python" in name.lower(), for the names of the model
NamesPython(name) == Contains(name, "python")

\* _venv_env_for(interpreter_path), environ being os.environ: a function from
\* the names of the variables that are set to their values
venv_env_for(interpreter_path, environ) ==
    LET scripts   == PathParent(interpreter_path)
        venv_root == PathParent(scripts)
        path      == IF "PATH" \in DOMAIN environ THEN environ["PATH"] ELSE ""
        set       == Put(Put(environ, "PATH", PathStr(scripts) \o PathSep \o path),
                         "VIRTUAL_ENV", PathStr(venv_root))
    IN  IF PathName(scripts) \in {"Scripts", "bin"}
        THEN [k \in DOMAIN set \ {"PYTHONHOME"} |-> set[k]]
        ELSE environ

\* _ensure_real_python(interpreter, project_dir): override is the existing path
\* DAGRUNNER_PYTHON names, found what _find_project_python or
\* _fallback_system_python gives, executable sys.executable (NoPath: none).
\* The path found is the value [t |-> "path", v |-> <the path>].
ensure_real_python(interpreter, override, found, executable) ==
    IF override # NoPath THEN [t |-> "path", v |-> override]
    ELSE IF interpreter # NoPath /\ NamesPython(PathName(interpreter))
         THEN [t |-> "path", v |-> interpreter]
    ELSE IF found # NoPath THEN [t |-> "path", v |-> found]
    ELSE IF NamesPython(PathName(executable)) THEN [t |-> "path", v |-> executable]
    ELSE Raise("RuntimeError")

\* the script branch of run_task up to the call of run_script: the interpreter
\* that launches the script and the environment of the child process, which is
\* the caller's when env is None
script_launch(interpreter, override, found, executable, environ) ==
    LET env     == IF interpreter # NoPath THEN venv_env_for(interpreter, environ) ELSE environ
        real_py == ensure_real_python(interpreter, override, found, executable)
    IN  IF IsRaise(real_py) THEN real_py
        ELSE [t |-> "launch", interpreter |-> real_py.v, env |-> env]

----------------------------------------------------------------------------
(* Single calls of what run_task does around the backends *)

\* a command is written as pieces: a text that holds no keyword-reference token,
\* or the token of a key
Text(s) == [token |-> FALSE, text |-> s]

KwargToken(key) == [token |-> TRUE, text |-> key]

RECURSIVE CommandOf(_)
CommandOf(pieces) ==
    IF pieces = <<>> THEN ""
    ELSE (IF pieces[1].token THEN KwargPrefix \o pieces[1].text \o "}" ELSE pieces[1].text)
         \o CommandOf(Tail(pieces))

ShellCommands ==
    {<<Text("echo")>>,
     <<Text("echo got "), KwargToken("x")>>,
     <<Text("run "), KwargToken("x"), Text(" to "), KwargToken("zz")>>,
     <<KwargToken("x"), KwargToken("n-1")>>,
     <<Text("build ${kwargs.out.dir}")>>,
     <<Text("echo ${kwargs.")>>}

ShellArgs ==
    {VNone, VList(<<>>), VList(<<VStr("alpha"), VStr("beta")>>),
     VList(<<VStr("a b"), VInt(7), VNone>>), VList(<<VStr("it's")>>)}

ShellKwargs ==
    {VNone, VDict(<<>>), VDict(<< <<"x", VStr("y")>> >>), VDict(<< <<"x", VNone>> >>),
     VDict(<< <<"n-1", VInt(1)>>, <<"x", VStr("v w")>> >>),
     VDict(<< <<"out.dir", VStr("d")>> >>)}

\* a shell task; "args" and "kwargs" are left out of the dict in one input each
ShellTask(pieces, a, k) ==
    VDict(<< <<"id", VStr("s1")>>, <<"type", VStr("shell")>>,
             <<"command", VStr(CommandOf(pieces))>> >>
          \o (IF a = VList(<<>>) THEN <<>> ELSE << <<"args", a>> >>)
          \o (IF k = VDict(<<>>) THEN <<>> ELSE << <<"kwargs", k>> >>))

ShellInputs ==
    {[fn |-> "shell_command", pieces |-> p, task |-> ShellTask(p, a, k), windows |-> w]
        : p \in ShellCommands, a \in ShellArgs, k \in ShellKwargs, w \in BOOLEAN}

\* what the called function prints before it ends
PrintedTexts == {"", "hello\n", "no newline", "log <<RETURN_VALUE_JSON>>1\n"}

\* what the called function returns
ReturnedValues ==
    {VNone, VInt(42), VInt(-7), VBool(TRUE), VStr("ok"), VStr("say \"hi\"\n"), VStr("a\\b"),
     VList(<<>>), VList(<<VInt(1), VStr("x")>>), VDict(<<>>),
     VDict(<< <<"x", VInt(42)>>, <<"msg", VStr("ok")>> >>),
     VStr("<<RETURN_VALUE_JSON>>7"),
     VDict(<< <<"note", VStr("see <<RETURN_VALUE_JSON>>")>> >>)}

FunctionInputs ==
    {[fn |-> "run_function", behaviour |-> b]
        : b \in {Returns(p, rv) : p \in PrintedTexts, rv \in ReturnedValues}
                \cup {Raises(p) : p \in PrintedTexts}
                \cup {Exits(p, c) : p \in PrintedTexts, c \in {0, 3}}}

\* the interpreter run_task is given: none, a virtual environment's python, a
\* python outside one, and a packaged dagrunner.exe
GivenInterpreters ==
    {NoPath, <<"proj", ".venv", "bin", "python">>, <<"opt", "py", "python3">>,
     <<"app", "Scripts", "dagrunner.exe">>}

\* the caller's environment
Environments ==
    {EmptyMap, [k \in {"PATH"} |-> "/usr/bin"],
     [k \in {"PATH", "PYTHONHOME", "VIRTUAL_ENV"} |->
        CASE k = "PATH" -> "/usr/bin" [] k = "PYTHONHOME" -> "/opt/py" [] OTHER -> "/old"]}

ScriptInputs ==
    {[fn |-> "script_launch", interpreter |-> i, override |-> o, found |-> f,
      executable |-> x, environ |-> v]
        : i \in GivenInterpreters,
          o \in {NoPath, <<"usr", "bin", "python3">>},
          f \in {NoPath, <<"proj", "env", "Scripts", "python.exe">>, <<"usr", "local", "python3">>},
          x \in {<<"app", "Scripts", "dagrunner.exe">>, <<"usr", "bin", "python3">>},
          v \in Environments}

InitBackends ==
    /\ \/ fn_in \in ShellInputs
       \/ fn_in \in FunctionInputs
       \/ fn_in \in ScriptInputs
    /\ fn_out = Pending
    /\ job = <<>>
    /\ dry_run = FALSE
    /\ ignore_deps = FALSE
    /\ python_ok = TRUE
    /\ pc = "idle"
    /\ tasks = <<>>
    /\ idx = 1
    /\ task_outputs = EmptyMap
    /\ calls = EmptyMap
    /\ log = <<>>
    /\ resolutions = EmptyMap
    /\ config = <<>>
    /\ procs = <<>>
    /\ main_pc = "idle"
    /\ main_i = 1

CallShellCommand ==
    /\ fn_in.fn = "shell_command"
    /\ ~fn_out.done
    /\ fn_out' = Returned(shell_command(fn_in.task, fn_in.windows))
    /\ UNCHANGED <<fn_in, jobVars, poolVars>>

CallRunFunction ==
    /\ fn_in.fn = "run_function"
    /\ ~fn_out.done
    /\ fn_out' = Returned(run_function(launcher(fn_in.behaviour)))
    /\ UNCHANGED <<fn_in, jobVars, poolVars>>

CallScriptLaunch ==
    /\ fn_in.fn = "script_launch"
    /\ ~fn_out.done
    /\ fn_out' = Returned(script_launch(fn_in.interpreter, fn_in.override, fn_in.found,
                                        fn_in.executable, fn_in.environ))
    /\ UNCHANGED <<fn_in, jobVars, poolVars>>

NextBackends ==
    \/ CallShellCommand
    \/ CallRunFunction
    \/ CallScriptLaunch

SpecBackends == InitBackends /\ [][NextBackends]_vars

----------------------------------------------------------------------------
(* Notions the properties are stated in *)

\* the ids of the tasks of a task list
Ids(ts) == {TaskId(ts[i]) : i \in 1..Len(ts)}

\* the ids a task lists in depends_on
DepIds(task) == {DependsOn(task)[i].v : i \in 1..Len(DependsOn(task))}

\* the task of the list ts that has this id
TaskOf(ts, id) == ts[CHOOSE i \in 1..Len(ts) : TaskId(ts[i]) = id]

\* the position of the task with this id in the list q
Position(q, id) == CHOOSE i \in 1..Len(q) : TaskId(q[i]) = id

RECURSIVE UpstreamFrom(_, _, _)
\* the ids reached from the ids `front` along one or more depends_on edges of ts
UpstreamFrom(ts, front, acc) ==
    LET next == UNION {DepIds(TaskOf(ts, id)) : id \in front \cap Ids(ts)} \ acc
    IN  IF next = {} THEN acc ELSE UpstreamFrom(ts, next, acc \cup next)

\* the tasks on which the task `id` depends, directly or through other tasks
Upstream(ts, id) == UpstreamFrom(ts, {id}, {})

\* the ids are distinct, every depends_on id names a task of the list, and no
\* task depends on itself through any chain
WellFormed(ts) ==
    /\ \A i, j \in 1..Len(ts) : TaskId(ts[i]) = TaskId(ts[j]) => i = j
    /\ \A i \in 1..Len(ts) : DepIds(ts[i]) \subseteq Ids(ts)
    /\ \A id \in Ids(ts) : id \notin Upstream(ts, id)

\* the entry is in the job's log
Logged(entry) == \E i \in 1..Len(log) : log[i] = entry

\* the task was handed to run_task and its recorded exit code is not zero
RanAndFailed(id) ==
    id \in DOMAIN calls /\ id \in DOMAIN task_outputs /\ ResultCode(task_outputs[id]) # 0

\* the number of places of the string s at which the string sub stands
Occurrences(s, sub) ==
    Cardinality({i \in 1..(Len(s) - Len(sub) + 1) : SubSeq(s, i, i + Len(sub) - 1) = sub})

\* the number of tokens in a task definition that name the task tid
TokensOn(task, tid) == Occurrences(PyRepr(task), "${outputs." \o tid \o ".")

\* the value a field path names in a result: the path is followed, key by key,
\* into the result's return value, a leading segment "return_value" standing
\* for the return value itself.  [ok |-> FALSE] when there is no such value.
RECURSIVE Follow(_, _)
Follow(val, path) ==
    IF Len(path) = 0 THEN [ok |-> TRUE, val |-> val]
    ELSE IF val.t = "dict" /\ HasKey(val, Head(path))
         THEN Follow(Item(val, Head(path)), Tail(path))
         ELSE [ok |-> FALSE, val |-> VNone]

Referenced(result, path) ==
    IF ~HasKey(result, "return_value") \/ Item(result, "return_value") = VNone
    THEN [ok |-> FALSE, val |-> VNone]
    ELSE Follow(Item(result, "return_value"),
                IF Head(path) = "return_value" THEN Tail(path) ELSE path)

\* a single call of resolve_dependencies, or of resolve_placeholders, has returned
ResolvedDependencies == fn_in.fn = "resolve_dependencies" /\ fn_out.done

ResolvedPlaceholders == fn_in.fn = "resolve_placeholders" /\ fn_out.done

----------------------------------------------------------------------------
(* Skipping, ordering, and the two flags *)

\* C1: in run_job with ignore_deps unset, once a task T is recorded with a
\* non-zero exit code, no task that depends on T through any chain of depends_on
\* edges is ever handed to run_task, so that no backend runs for it; such a task
\* is recorded with the skip result, exit code 2, and logged as skipped, and
\* when the job is done each of them is recorded.
DependentsOfFailedAreSkipped ==
    ~ignore_deps =>
        \A u \in Ids(job) : \A T \in Upstream(job, u) :
            (T \in DOMAIN task_outputs /\ ResultCode(task_outputs[T]) # 0) =>
                /\ u \notin DOMAIN calls
                /\ u \in DOMAIN task_outputs =>
                      /\ ResultCode(task_outputs[u]) = 2
                      /\ task_outputs[u] = SkipResult
                      /\ Logged(<<"status", u, "skipped">>)
                /\ pc = "done" => u \in DOMAIN task_outputs

\* a finished job in which a task ran and failed, and a task that depends on it
\* only through another task was skipped
TransitiveDependentSkipped ==
    /\ pc = "done"
    /\ ~ignore_deps
    /\ \E u \in Ids(job) : \E T \in Upstream(job, u) \ DepIds(TaskOf(job, u)) :
          /\ RanAndFailed(T)
          /\ task_outputs[u] = SkipResult
          /\ u \notin DOMAIN calls

\* C2: for a task list whose depends_on ids all name tasks of the list and whose
\* dependency graph is acyclic, resolve_dependencies raises nothing and returns
\* an order that holds every task once, each task behind every task listed in
\* its depends_on.
DependenciesComeFirst ==
    (ResolvedDependencies /\ WellFormed(fn_in.tasks)) =>
        LET order == fn_out.val.resolved
        IN  /\ fn_out.val.err = ""
            /\ Len(order) = Len(fn_in.tasks)
            /\ \A i \in 1..Len(fn_in.tasks) :
                  \E p \in 1..Len(order) :
                      /\ order[p] = fn_in.tasks[i]
                      /\ \A d \in DepIds(fn_in.tasks[i]) :
                            \E q \in 1..(p - 1) : TaskId(order[q]) = d

\* resolve_dependencies returned an order that is not the declared one: a task
\* declared before one of its dependencies was moved behind it
DependencyMovedForward ==
    /\ ResolvedDependencies
    /\ WellFormed(fn_in.tasks)
    /\ Len(fn_in.tasks) = MaxTasks
    /\ fn_out.val.err = ""
    /\ fn_out.val.resolved # fn_in.tasks
    /\ \E d \in DepIds(fn_in.tasks[1]) : TaskId(fn_out.val.resolved[1]) = d

\* C3: in run_job with ignore_deps set, every recorded task was handed to
\* run_task, none is recorded or logged as skipped whatever the exit codes of its
\* dependencies, and when the job is done every task of it was handed to run_task.
IgnoreDepsRunsEverything ==
    ignore_deps =>
        /\ DOMAIN calls = DOMAIN task_outputs
        /\ \A id \in DOMAIN task_outputs :
              /\ task_outputs[id] # SkipResult
              /\ ~Logged(<<"status", id, "skipped">>)
        /\ pc = "done" => DOMAIN calls = Ids(job)

\* a finished job with ignore_deps set in which a task was run although one of
\* its dependencies had failed and another had been run in the same way
RanDespiteFailedDependency ==
    /\ pc = "done"
    /\ ignore_deps
    /\ ~dry_run
    /\ \E u \in Ids(job) : \E d \in DepIds(TaskOf(job, u)) :
          /\ RanAndFailed(d)
          /\ u \in DOMAIN calls
          /\ calls[u].backend # "none"

\* C4: in run_job with dry_run set, no call of run_task reaches a backend
\* (run_shell, run_script, run_function), every recorded result is the no-op
\* success (exit code 0, empty stdout and stderr, return value None), no task is
\* skipped, and when the job is done every task of it is recorded.
DryRunCallsNoBackend ==
    dry_run =>
        /\ \A id \in DOMAIN calls :
              calls[id].backend = "none" /\ calls[id].outcome.kind = "none"
        /\ \A id \in DOMAIN task_outputs :
              /\ id \in DOMAIN calls
              /\ Item(task_outputs[id], "returncode") = VInt(0)
              /\ Item(task_outputs[id], "stdout") = VStr("")
              /\ Item(task_outputs[id], "stderr") = VStr("")
              /\ Item(task_outputs[id], "return_value") = VNone
              /\ ~Logged(<<"status", id, "skipped">>)
              /\ Logged(<<"dry_run", id>>)
        /\ pc = "done" => DOMAIN task_outputs = Ids(job)

\* a finished dry run of a job of MaxTasks tasks of all three types, some of
\* them with dependencies, with ignore_deps unset
DryRunOfWholeJob ==
    /\ pc = "done"
    /\ dry_run
    /\ ~ignore_deps
    /\ Len(job) = MaxTasks
    /\ {TaskType(job[i]) : i \in 1..Len(job)} = {"shell", "script", "function"}
    /\ \E i \in 1..Len(job) : DepIds(job[i]) # {}
    /\ DOMAIN calls = Ids(job)

----------------------------------------------------------------------------
(* Placeholder resolution *)

\* C5: when a string is exactly one placeholder token that names a task of the
\* run context and a field path that names a value in that task's return value,
\* resolve_placeholders returns that value itself, with its type (integer,
\* boolean, mapping), and not its string form.
ExactTokenGivesReferencedValue ==
    (/\ ResolvedPlaceholders
     /\ fn_in.shape = "exact"
     /\ fn_in.tid \in DOMAIN fn_in.outputs
     /\ Referenced(fn_in.outputs[fn_in.tid], fn_in.path).ok)
    => fn_out.val = Referenced(fn_in.outputs[fn_in.tid], fn_in.path).val

\* the exact token for the field x of a producer that returned a mapping with
\* x = 42 was resolved to the integer 42
ExactTokenGaveInteger ==
    /\ ResolvedPlaceholders
    /\ fn_in.obj = VStr("${outputs.producer.x}")
    /\ "producer" \in DOMAIN fn_in.outputs
    /\ Referenced(fn_in.outputs["producer"], <<"x">>) = [ok |-> TRUE, val |-> VInt(42)]
    /\ fn_out.val = VInt(42)

\* C6: in a string that holds placeholder tokens inside other text, each token
\* is resolved on its own: one whose task is in the run context is replaced by
\* the string form of the value it names, one whose task is not in the run
\* context stays as its literal text, the text around the tokens is unchanged,
\* and nothing is raised.
EmbeddedTokensResolveInPlace ==
    (/\ ResolvedPlaceholders
     /\ fn_in.shape \in {"embedded", "two"}
     /\ fn_in.tid \in DOMAIN fn_in.outputs => Referenced(fn_in.outputs[fn_in.tid], fn_in.path).ok)
    => LET piece == IF fn_in.tid \in DOMAIN fn_in.outputs
                    THEN PyStr(Referenced(fn_in.outputs[fn_in.tid], fn_in.path).val)
                    ELSE PathToken(fn_in.tid, fn_in.path)
       IN  fn_out.val =
              IF fn_in.shape = "embedded"
              THEN VStr("Value: " \o piece \o "!")
              ELSE VStr("a " \o piece \o " b ${outputs.nope.x} c")

\* a string with two tokens was resolved: the one that names a task of the run
\* context was replaced by the string form of an integer, the other one, whose
\* task is not in the run context, was left as it was
EmbeddedTokenReplacedOtherKept ==
    /\ ResolvedPlaceholders
    /\ fn_in.shape = "two"
    /\ fn_in.tid \in DOMAIN fn_in.outputs
    /\ fn_in.path = <<"x">>
    /\ fn_out.val = VStr("a 42 b ${outputs.nope.x} c")

\* C7: when a string is exactly one placeholder token whose task id is not in
\* the run context, resolve_placeholders raises KeyError, also when the string
\* is an element of a list or a value of a mapping nested in the object.
MissingTaskRaisesKeyError ==
    (/\ ResolvedPlaceholders
     /\ fn_in.shape \in {"exact", "in_list", "in_dict"}
     /\ fn_in.tid \notin DOMAIN fn_in.outputs)
    => fn_out.val = Raise("KeyError")

\* KeyError was raised out of a list inside a mapping, the run context holding
\* the result of another task
NestedMissingTaskRaised ==
    /\ ResolvedPlaceholders
    /\ fn_in.shape = "in_dict"
    /\ fn_in.tid = "nope"
    /\ DOMAIN fn_in.outputs = {"producer"}
    /\ IsRaise(fn_out.val)

----------------------------------------------------------------------------
(* What run_job does around a failure *)

\* the placeholder resolution of the task `id` raised
ResolutionRaised(id) == id \in DOMAIN resolutions /\ IsRaise(resolutions[id].result)

\* a dependency of the task is recorded with a non-zero exit code while
\* ignore_deps is unset
HasFailedDependency(id) ==
    /\ ~ignore_deps
    /\ \E d \in DepIds(TaskOf(job, id)) :
          d \in DOMAIN task_outputs /\ ResultCode(task_outputs[d]) # 0

\* C8 as stated: if the placeholder resolution of a task raises, run_job logs
\* the error and hands the task to run_task with its original definition, no
\* token of it substituted.
FailedResolutionStillRuns ==
    \A id \in Ids(job) :
        ResolutionRaised(id) =>
            /\ Logged(<<"placeholder_error", id>>)
            /\ id \in DOMAIN calls
            /\ calls[id].task = TaskOf(job, id)

\* C8, amended: if the placeholder resolution of a task raises, run_job logs the
\* error and goes on with the task's original definition, no token of it
\* substituted: the task is skipped if ignore_deps is unset and a dependency of
\* it is recorded with a non-zero exit code, else it is handed to run_task with
\* that definition; the job is not aborted, and when it is done every task of
\* it is recorded.
FailedResolutionKeepsOriginal ==
    /\ \A id \in Ids(job) :
          ResolutionRaised(id) =>
              /\ Logged(<<"placeholder_error", id>>)
              /\ pc # "crashed"
              /\ IF HasFailedDependency(id)
                 THEN id \notin DOMAIN calls /\ task_outputs[id] = SkipResult
                 ELSE id \in DOMAIN calls /\ calls[id].task = TaskOf(job, id)
    /\ pc = "done" => DOMAIN task_outputs = Ids(job)

\* a finished job in which the resolution of a task raised, the task went to a
\* backend with its arguments still holding the token, and a task behind it in
\* the order was run as well
RanUnresolvedAndWentOn ==
    /\ pc = "done"
    /\ ~dry_run
    /\ \E id \in Ids(job) :
          /\ ResolutionRaised(id)
          /\ id \in DOMAIN calls
          /\ calls[id].backend = "run_function"
          /\ HasKey(calls[id].task, "args")
          /\ Item(calls[id].task, "args") = Item(TaskOf(job, id), "args")
          /\ \E later \in DOMAIN calls : Position(tasks, later) > Position(tasks, id)

\* the tokens of the task `id` that name the task itself or a task behind it in
\* the resolved order are all still in the definition the loop went on with
LaterTokensKept(id) ==
    LET original == TaskOf(job, id)
        kept == task_after_resolution(original, resolutions[id].result)
    IN  \/ kept = original
        \/ \A q \in Position(tasks, id)..Len(tasks) :
              TokensOn(kept, TaskId(tasks[q])) = TokensOn(original, TaskId(tasks[q]))

\* C9: when the placeholders of a task T are resolved, the run context holds
\* results only of tasks that stand before T in the resolved order of the job,
\* and every token of T that names T itself or a task behind it in that order
\* is still in the definition the loop goes on with (stated of the task whose
\* iteration has just ended: what is kept of a resolution never changes later).
ContextHoldsOnlyEarlierTasks ==
    /\ \A id \in DOMAIN resolutions :
          resolutions[id].context \subseteq
              {TaskId(tasks[i]) : i \in 1..(Position(tasks, id) - 1)}
    /\ (pc = "loop" /\ idx > 1) => LaterTokensKept(TaskId(tasks[idx - 1]))

\* a finished job in which a task holds a token inside other text that names a
\* task behind it in the order; the resolution raised nothing, and the later
\* task then ran and returned a value with the field the token names
TokenOnLaterTaskKept ==
    /\ pc = "done"
    /\ \E id \in DOMAIN calls : \E q \in DOMAIN task_outputs :
          /\ Position(tasks, q) > Position(tasks, id)
          /\ ~ResolutionRaised(id)
          /\ TokensOn(calls[id].task, q) > 0
          /\ Referenced(task_outputs[q], <<"x">>).ok

\* C10: a task whose backend exits with a non-zero code or raises, or for which
\* run_task raises before it reaches a backend, is recorded with a non-zero exit
\* code and logged as failed; run_job is not left because of it, its loop has
\* recorded every task up to the one it stands at, and when the job is done every
\* task that does not depend, through any chain, on a task that ran and failed
\* was handed to run_task.
FailureDoesNotStopJob ==
    /\ \A id \in DOMAIN calls :
          LET failure == \/ calls[id].outcome.kind = "raise"
                         \/ calls[id].outcome.kind = "exit" /\ calls[id].outcome.rc # 0
                         \/ calls[id].backend = "none" /\ ~dry_run
          IN  /\ id \in DOMAIN task_outputs
              /\ failure <=> ResultCode(task_outputs[id]) # 0
              /\ failure => Logged(<<"status", id, "failed">>)
              /\ pc # "crashed"
    /\ pc = "loop" => DOMAIN task_outputs = {TaskId(tasks[i]) : i \in 1..(idx - 1)}
    /\ pc = "done" =>
          \A u \in Ids(job) :
              (\A T \in Upstream(job, u) : ~RanAndFailed(T)) => u \in DOMAIN calls

\* a finished job, ignore_deps unset, in which the backend of a task raised and a
\* task behind it in the order, which does not depend on it, went to its backend
RanAfterFailure ==
    /\ pc = "done"
    /\ ~ignore_deps
    /\ \E T \in DOMAIN calls : \E u \in DOMAIN calls :
          /\ calls[T].outcome.kind = "raise"
          /\ Position(tasks, u) > Position(tasks, T)
          /\ T \notin Upstream(job, u)
          /\ calls[u].backend # "none"

----------------------------------------------------------------------------
(* Termination and the run context *)

\* the log entries that give the task `id` a terminal status
TerminalEntries(id) ==
    {i \in 1..Len(log) :
        log[i] \in {<<"status", id, "done">>, <<"status", id, "failed">>,
                    <<"status", id, "skipped">>, <<"dry_run", id>>}}

\* every task of the job has a recorded result and one terminal status
EveryTaskHasOneResult ==
    /\ DOMAIN task_outputs = Ids(job)
    /\ \A id \in Ids(job) : Cardinality(TerminalEntries(id)) = 1

\* while run_job is running one of its steps can be taken: the call of
\* resolve_dependencies, the end of the loop, or an iteration, which skips the
\* task or runs it with one of the outcomes of its backend
StepAvailable ==
    \/ pc = "start"
    \/ pc = "loop" /\ idx > Len(tasks)
    \/ /\ pc = "loop"
       /\ idx <= Len(tasks)
       /\ LET task == task_after_resolution(tasks[idx],
                                            resolve_placeholders(tasks[idx], task_outputs))
          IN  \/ must_skip(task, task_outputs, ignore_deps)
              \/ TaskOutcomes(task, dry_run, python_ok) # {}

\* C11: for a job whose depends_on ids all name tasks of the job and whose
\* dependency graph is acyclic, run_job, every backend call of which returns,
\* reaches its end, and every task of the job then has a recorded result and
\* exactly one terminal status (done, failed, skipped or dry-run).
JobTerminates ==
    /\ [](Running => StepAvailable)
    /\ WellFormed(job) ~> (pc = "done" /\ EveryTaskHasOneResult)

\* a finished job of MaxTasks tasks of which one is done, one failed and one
\* skipped
FinishedWithAllStatuses ==
    /\ pc = "done"
    /\ Len(job) = MaxTasks
    /\ EveryTaskHasOneResult
    /\ \E a, b, c \in Ids(job) :
          /\ Logged(<<"status", a, "done">>)
          /\ Logged(<<"status", b, "failed">>)
          /\ Logged(<<"status", c, "skipped">>)

\* one step of run_job keeps every recorded result as it is, records at most one
\* more, and leaves each recorded task with one handling in the log
WriteOnceStep ==
    /\ \A id \in DOMAIN task_outputs :
          id \in DOMAIN task_outputs' /\ task_outputs'[id] = task_outputs[id]
    /\ Cardinality(DOMAIN task_outputs') <= Cardinality(DOMAIN task_outputs) + 1
    /\ \A id \in DOMAIN task_outputs' :
          Cardinality({i \in 1..Len(log') : log'[i] = <<"task", id>>}) = 1

\* C12: during one run of a job a result is recorded in the run context once
\* for each task id, and no later step of the run overwrites or changes a
\* recorded result.
ContextIsWriteOnce == [][WriteOnceStep]_vars

\* a finished job of MaxTasks tasks in which two tasks depend on the same task,
\* all of them recorded
SharedDependencyRecorded ==
    /\ pc = "done"
    /\ Len(job) = MaxTasks
    /\ DOMAIN task_outputs = Ids(job)
    /\ \E a, b \in Ids(job) :
          a # b /\ DepIds(TaskOf(job, a)) \cap DepIds(TaskOf(job, b)) # {}

----------------------------------------------------------------------------
(* Jobs side by side *)

\* worker k has ended, by return or by an exception
Ended(k) == procs[k].pc \in {"done", "crashed"}

\* C13: run_all_jobs starts one worker for each job of the configuration it is
\* given, the k-th worker for the k-th job and none besides, all of them before
\* it joins any, and it returns only when every one of them has ended.
OneWorkerPerJob ==
    /\ Len(procs) <= Len(config)
    /\ \A k \in 1..Len(procs) :
          procs[k].job_id = config[k][1] /\ procs[k].job = config[k][2]
    /\ main_pc \in {"joining", "returned"} => Len(procs) = Len(config)
    /\ main_pc = "returned" => \A k \in 1..Len(procs) : Ended(k)

\* run_all_jobs has returned from a configuration of MaxJobs jobs, of which one
\* ran to its end and one ended by an exception
ReturnedAfterAllEnded ==
    /\ main_pc = "returned"
    /\ Len(config) = MaxJobs
    /\ Len(procs) = MaxJobs
    /\ \E a, b \in 1..Len(procs) : procs[a].pc = "done" /\ procs[b].pc = "crashed"

\* the results that worker k has recorded for the tasks that stand before the
\* task `id` in its order
OwnEarlier(k, id) ==
    [d \in {TaskId(procs[k].tasks[i]) : i \in 1..(Position(procs[k].tasks, id) - 1)} |->
        procs[k].task_outputs[d]]

\* C14: the run context is private to a job: what a worker reads when it
\* resolves the placeholders of a task and decides whether to skip it are the
\* results that the worker itself recorded for the earlier tasks of its own job,
\* so that the value a token gets and the skip decision are those of the job run
\* alone, whatever tasks of the same id other jobs run at the same time.
ContextIsPrivate ==
    \A k \in 1..Len(procs) :
        /\ DOMAIN procs[k].task_outputs \subseteq Ids(procs[k].job)
        /\ \A id \in DOMAIN procs[k].seen :
              LET original == TaskOf(procs[k].job, id)
                  own == OwnEarlier(k, id)
              IN  /\ procs[k].seen[id].context = own
                  /\ procs[k].seen[id].result = resolve_placeholders(original, own)
                  /\ procs[k].task_outputs[id] = SkipResult
                        <=> (/\ ~ignore_deps
                             /\ \E d \in DepIds(original) : ResultCode(own[d]) # 0)

\* two workers ran jobs with the same task ids side by side: in the one t1
\* failed and t2 was skipped, in the other t1 returned and t2 was run with the
\* value of t1 in its argument
SameIdsDifferentResults ==
    /\ Len(procs) = 2
    /\ \A k \in 1..2 : procs[k].pc = "done" /\ DOMAIN procs[k].task_outputs = {"t1", "t2"}
    /\ ResultCode(procs[1].task_outputs["t1"]) # 0
    /\ procs[1].task_outputs["t2"] = SkipResult
    /\ ResultCode(procs[2].task_outputs["t1"]) = 0
    /\ Item(procs[2].seen["t2"].result, "args") = VList(<<VStr("v=42")>>)
    /\ ResultCode(procs[2].task_outputs["t2"]) = 0

----------------------------------------------------------------------------
(* Selecting jobs and tasks *)

\* a call of _filter_config_by_args has returned or raised
FilterDone == fn_in.fn = "filter_config_by_args" /\ fn_out.done

\* the job ids of a configuration
JobIds(c) == {c[k][1] : k \in 1..Len(c)}

\* the job ids that -j names, one option naming several between commas
RequestedJobs(a) == Range(normalize_id_list(a.jobs))

\* the ids that the options of a (-t and -g, or -x and -X) name or match among ids
Named(ids, names, globs) ==
    {i \in ids : i \in Range(normalize_id_list(names))
                 \/ fnmatch_any(i, normalize_id_list(globs))}

\* an inclusion filter, or any filter, was given
HasInclusion(a) == normalize_id_list(a.tasks) \o normalize_id_list(a.task_globs) # <<>>

HasFilter(a) ==
    HasInclusion(a)
    \/ normalize_id_list(a.exclude_tasks) \o normalize_id_list(a.exclude_task_globs) # <<>>

\* the selection among the tasks ts before dependencies are followed: the
\* included ids, or all without an inclusion filter, less the excluded ones
SelectedIds(ts, a) ==
    (IF HasInclusion(a) THEN Named(Ids(ts), a.tasks, a.task_globs) ELSE Ids(ts))
    \ Named(Ids(ts), a.exclude_tasks, a.exclude_task_globs)

\* the selection and, when dependencies are followed, everything upstream of it
ClosedIds(ts, a) ==
    SelectedIds(ts, a)
    \cup (IF a.no_deps THEN {} ELSE UNION {Upstream(ts, id) : id \in SelectedIds(ts, a)})

\* the tasks of ts that the filters keep, in their order
FilteredTasks(ts, a) == SelectSeq(ts, LAMBDA t : TaskId(t) \in ClosedIds(ts, a))

\* the entry of job jid in a jobs mapping
Entry(jobs, jid) == jobs[CHOOSE k \in 1..Len(jobs) : jobs[k][1] = jid]

\* C15: if some job id that -j names is not a job of the configuration, the call
\* raises SystemExit with the message "Unknown job" that names such an id, and so
\* returns no configuration; and when -j is not given every job of the
\* configuration is selected: a configuration that the call returns holds every
\* job for which the filters keep a task.
UnknownJobIsFatal ==
    FilterDone =>
        LET c   == fn_in.config
            a   == fn_in.args
            out == fn_out.val
        IN  /\ RequestedJobs(a) \ JobIds(c) # {} =>
                  /\ IsRaise(out)
                  /\ out.v = "SystemExit"
                  /\ out.msg = "Unknown job"
                  /\ out.names[1] \in RequestedJobs(a) \ JobIds(c)
            /\ (a.jobs = <<>> /\ ~IsRaise(out)) =>
                  \A k \in 1..Len(c) :
                      FilteredTasks(c[k][2], a) # <<>> => c[k][1] \in JobIds(out.v)

\* of two requested jobs the second, a misspelt one, is unknown, and the call
\* raised SystemExit naming it
MisspeltJobRejected ==
    /\ FilterDone
    /\ Len(fn_in.config) = 2
    /\ fn_in.args.jobs = <<"job1", "jbo2">>
    /\ fn_out.val = SystemExit("Unknown job", <<"jbo2">>)

\* some job that -j names is left without a task by the filters
SomeExplicitJobEmptied(c, a) ==
    \E k \in 1..Len(c) : c[k][1] \in RequestedJobs(a) /\ FilteredTasks(c[k][2], a) = <<>>

\* C16 as stated: whenever a job that -j names is left without a task by the
\* filters, whatever the filters are, the call raises.
ExplicitEmptyJobIsFatal ==
    (FilterDone /\ SomeExplicitJobEmptied(fn_in.config, fn_in.args)) => IsRaise(fn_out.val)

\* C16: whenever a job that -j names is left without a task by the filters and
\* an inclusion filter (-t or -g) was given, the call raises and returns no
\* configuration, whatever the exclusion filters and the other named jobs are.
ExplicitEmptyJobWithInclusionIsFatal ==
    (/\ FilterDone
     /\ HasInclusion(fn_in.args)
     /\ SomeExplicitJobEmptied(fn_in.config, fn_in.args)) => IsRaise(fn_out.val)

\* of two named jobs the first kept a task and the second, from which an
\* exclusion took the one task that the inclusion named, made the call raise
SecondNamedJobEmptiedAndRaised ==
    /\ FilterDone
    /\ Len(fn_in.config) = 2
    /\ fn_in.args.jobs = <<"job1, job2">>
    /\ fn_in.args.tasks = <<"a2,c1">>
    /\ fn_in.args.exclude_tasks = <<"b1, c1">>
    /\ FilteredTasks(fn_in.config[1][2], fn_in.args) # <<>>
    /\ FilteredTasks(fn_in.config[2][2], fn_in.args) = <<>>
    /\ Len(fn_in.config[2][2]) > 0
    /\ IsRaise(fn_out.val)
    /\ fn_out.val.v = "SystemExit"
    /\ fn_out.val.msg = "No tasks matched selection in explicitly selected job"
    /\ fn_out.val.names[1] = "job2"

\* some job of the configuration is left without a task by the filters
SomeJobEmptied(c, a) == \E k \in 1..Len(c) : FilteredTasks(c[k][2], a) = <<>>

\* the jobs of c that keep a task, each with the tasks that the filters keep
JobsWithTasks(c, a) ==
    LET kept == SelectSeq(c, LAMBDA j : FilteredTasks(j[2], a) # <<>>)
    IN  [k \in 1..Len(kept) |-> <<kept[k][1], FilteredTasks(kept[k][2], a)>>]

\* the jobs of c that keep a task and, when no inclusion filter is given, those
\* that have no task to begin with
JobsKept(c, a) ==
    LET kept == SelectSeq(c, LAMBDA j : \/ FilteredTasks(j[2], a) # <<>>
                                        \/ j[2] = <<>> /\ ~HasInclusion(a))
    IN  [k \in 1..Len(kept) |-> <<kept[k][1], FilteredTasks(kept[k][2], a)>>]

\* every depends_on id of every job names a task of that job
DependenciesExist(c) ==
    \A k \in 1..Len(c) : \A i \in 1..Len(c[k][2]) : DepIds(c[k][2][i]) \subseteq Ids(c[k][2])

\* C17 as stated: when -j is not given and the filters leave some job without a
\* task, the call raises nothing and returns the jobs that keep a task, each with
\* the tasks that the filters keep, and no other job.
ImplicitEmptyJobIsOmittedAlways ==
    (/\ FilterDone
     /\ fn_in.args.jobs = <<>>
     /\ DependenciesExist(fn_in.config)
     /\ SomeJobEmptied(fn_in.config, fn_in.args))
    => fn_out.val = Filtered(JobsWithTasks(fn_in.config, fn_in.args))

\* C17: when -j is not given, the filters leave some job without a task and some
\* job is kept, the call raises nothing and returns the kept jobs, each with the
\* tasks that the filters keep, and no other job; the kept jobs are those that
\* keep a task and, when no inclusion filter is given, those that had no task to
\* begin with.
ImplicitEmptyJobIsOmitted ==
    (/\ FilterDone
     /\ fn_in.args.jobs = <<>>
     /\ DependenciesExist(fn_in.config)
     /\ SomeJobEmptied(fn_in.config, fn_in.args)
     /\ JobsKept(fn_in.config, fn_in.args) # <<>>)
    => fn_out.val = Filtered(JobsKept(fn_in.config, fn_in.args))

\* without -j an inclusion matched in the first job only, and the call returned
\* that job alone, with the matched task and the one it depends on
UnmatchedJobOmitted ==
    /\ FilterDone
    /\ fn_in.args.jobs = <<>>
    /\ fn_in.args.tasks = <<"zz">>
    /\ fn_in.args.task_globs = <<"a*">>
    /\ ~fn_in.args.no_deps
    /\ Len(fn_in.config) = 2
    /\ Ids(fn_in.config[2][2]) = {"b1", "c1"}
    /\ ~IsRaise(fn_out.val)
    /\ JobIds(fn_out.val.v) = {"job1"}
    /\ Ids(fn_out.val.v[1][2]) = {"a1", "a2"}

\* the jobs of c that are selected: those that -j names, or all without -j
SelectedJobs(c, a) ==
    SelectSeq(c, LAMBDA j : a.jobs = <<>> \/ j[1] \in RequestedJobs(a))

\* the ids and globs of the inclusion filters
InclusionNames(a) == Range(normalize_id_list(a.tasks)) \cup Range(normalize_id_list(a.task_globs))

\* C18: if -j names only jobs of the configuration and none of the selected jobs
\* is kept, the call raises SystemExit with a message that names the requested
\* inclusion ids and globs; and a configuration that the call returns holds at
\* least one job.
NoJobLeftIsFatal ==
    FilterDone =>
        LET c   == fn_in.config
            a   == fn_in.args
            out == fn_out.val
        IN  /\ ~IsRaise(out) => Len(out.v) > 0
            /\ (/\ RequestedJobs(a) \subseteq JobIds(c)
                /\ DependenciesExist(c)
                /\ JobsKept(SelectedJobs(c, a), a) = <<>>) =>
                  /\ IsRaise(out)
                  /\ out.v = "SystemExit"
                  /\ InclusionNames(a) \subseteq Range(out.names)

\* the inclusion filters matched in neither of two jobs, and the call raised
\* SystemExit naming the two jobs and the filters
NothingMatchedAndRaised ==
    /\ FilterDone
    /\ Len(fn_in.config) = 2
    /\ fn_in.args.jobs = <<>>
    /\ \A k \in 1..2 : Len(fn_in.config[k][2]) > 0
    /\ fn_out.val = SystemExit("No jobs/tasks matched the selection",
                               <<"job1", "job2", "zz", "a*">>)

\* C19: when dependencies are followed and the selection among the tasks of a
\* selected job is not empty, a configuration that the call returns holds the job
\* with a task set that is closed under depends_on, that holds the selection, and
\* in which every task is selected or is reached from a selected task along
\* depends_on edges.
KeptIsDependencyClosure ==
    (FilterDone /\ ~fn_in.args.no_deps /\ ~IsRaise(fn_out.val)) =>
        LET a      == fn_in.args
            chosen == SelectedJobs(fn_in.config, a)
        IN  \A k \in 1..Len(chosen) :
                LET ts       == chosen[k][2]
                    selected == SelectedIds(ts, a)
                IN  selected # {} =>
                       /\ chosen[k][1] \in JobIds(fn_out.val.v)
                       /\ LET kept == Entry(fn_out.val.v, chosen[k][1])[2]
                          IN  /\ \A i \in 1..Len(kept) : DepIds(kept[i]) \subseteq Ids(kept)
                              /\ selected \subseteq Ids(kept)
                              /\ \A id \in Ids(kept) :
                                    \/ id \in selected
                                    \/ \E s \in selected : id \in Upstream(ts, s)

\* the one selected task of a chain brought in the two tasks upstream of it, the
\* farther of which an exclusion had named
ExcludedDependencyBroughtBack ==
    /\ FilterDone
    /\ Len(fn_in.config) = 1
    /\ fn_in.args.tasks = <<"b1">>
    /\ fn_in.args.task_globs = <<>>
    /\ fn_in.args.exclude_tasks = <<"a1">>
    /\ ~fn_in.args.no_deps
    /\ SelectedIds(fn_in.config[1][2], fn_in.args) = {"b1"}
    /\ ~IsRaise(fn_out.val)
    /\ Ids(fn_out.val.v[1][2]) = {"a1", "a2", "b1"}

\* a call of _select_task_ids has returned
SelectDone == fn_in.fn = "select_task_ids" /\ fn_out.done

\* the pattern matches the name: the characters of the pattern can be given
\* stretches of the name that follow one another and cover it, a "*" any stretch,
\* a "?" one character, and any other character the same character
Matches(name, pat) ==
    \E w \in [1..Len(pat) -> 0..Len(name)] :
        LET RECURSIVE Before(_)
            Before(j) == IF j = 1 THEN 0 ELSE Before(j - 1) + w[j - 1]
        IN  /\ Before(Len(pat) + 1) = Len(name)
            /\ \A j \in 1..Len(pat) :
                  CharAt(pat, j) # "*" =>
                      /\ w[j] = 1
                      /\ CharAt(pat, j) = "?"
                         \/ CharAt(pat, j) = CharAt(name, Before(j) + 1)

\* C20: the set that _select_task_ids returns holds exactly the task ids that are
\* included (every id when no inclusion id or glob is given, otherwise the ids
\* equal to an inclusion id or matching an inclusion glob) and that neither equal
\* an exclusion id nor match an exclusion glob.
SelectionIsIncludedMinusExcluded ==
    SelectDone =>
        LET included(id) ==
                \/ fn_in.include_ids = <<>> /\ fn_in.include_globs = <<>>
                \/ id \in Range(fn_in.include_ids)
                \/ \E g \in Range(fn_in.include_globs) : Matches(id, g)
            excluded(id) ==
                \/ id \in Range(fn_in.exclude_ids)
                \/ \E g \in Range(fn_in.exclude_globs) : Matches(id, g)
        IN  fn_out.val = {id \in Range(fn_in.all_ids) : included(id) /\ ~excluded(id)}

\* of three tasks one was included by its id and two by a glob; an exclusion id
\* took one of these and an exclusion glob another, and one task was selected
IncludedTwiceExcludedTwice ==
    /\ SelectDone
    /\ fn_in.all_ids = <<"a1", "a2", "b1">>
    /\ fn_in.include_ids = <<"a2", "c1">>
    /\ fn_in.include_globs = <<"?1">>
    /\ fn_in.exclude_ids = <<"a1">>
    /\ fn_in.exclude_globs = <<"a*">>
    /\ fn_out.val = {"b1"}

----------------------------------------------------------------------------
(* The order of the kept tasks; validation *)

\* q is ts with some of its elements left out
IsSubsequence(q, ts) ==
    \E at \in [1..Len(q) -> 1..Len(ts)] :
        /\ \A i, j \in 1..Len(q) : i < j => at[i] < at[j]
        /\ \A i \in 1..Len(q) : q[i] = ts[at[i]]

\* C21: in a configuration that _filter_config_by_args returns, the task list of
\* every job is a subsequence of the task list that the job had: the kept tasks
\* stand in their original order.
FilteredKeepsOriginalOrder ==
    (FilterDone /\ ~IsRaise(fn_out.val)) =>
        \A k \in 1..Len(fn_out.val.v) :
            /\ fn_out.val.v[k][1] \in JobIds(fn_in.config)
            /\ IsSubsequence(fn_out.val.v[k][2],
                             Entry(fn_in.config, fn_out.val.v[k][1])[2])

\* the inclusion named the last task of a chain, the closure found the two tasks
\* before it afterwards, and the three are kept in the order of the job
NamedLastKeptInJobOrder ==
    /\ FilterDone
    /\ Len(fn_in.config) = 1
    /\ fn_in.args.tasks = <<"b1">>
    /\ fn_in.args.task_globs = <<>>
    /\ ~fn_in.args.no_deps
    /\ ~IsRaise(fn_out.val)
    /\ [i \in 1..Len(fn_out.val.v[1][2]) |-> TaskId(fn_out.val.v[1][2][i])]
           = <<"a1", "a2", "b1">>

\* a call of validate_config has returned or raised
ValidateDone == fn_in.fn = "validate_config" /\ fn_out.done

\* in every job the task ids are pairwise distinct and every depends_on id is
\* the id of a task of that job
IdsAndDependenciesSound(c) ==
    /\ c.has_jobs
    /\ \A k \in 1..Len(c.jobs) :
          LET ts == c.jobs[k][2].tasks
          IN  /\ c.jobs[k][2].has_tasks
              /\ \A i, j \in 1..Len(ts) :
                    DictGet(ts[i], "id", VNone) = DictGet(ts[j], "id", VNone) => i = j
              /\ \A i \in 1..Len(ts) :
                    \A d \in DepIds(ts[i]) :
                        \E j \in 1..Len(ts) : DictGet(ts[j], "id", VNone) = VStr(d)

\* C22: validate_config returns only for a configuration in which, in every job,
\* the task ids are pairwise distinct and every depends_on id names a task of
\* that job; for any other configuration it raises the validation error,
\* AssertionError.
ValidationRejectsUnsoundIds ==
    ValidateDone =>
        /\ fn_out.val.err = "" => IdsAndDependenciesSound(fn_in.config)
        /\ ~IdsAndDependenciesSound(fn_in.config) => fn_out.val.err = "AssertionError"

\* the second job depends on a task that only the first job has, and the
\* configuration was rejected for it
DependencyOnOtherJobRejected ==
    /\ ValidateDone
    /\ fn_out.val = Validated("AssertionError", "depends on unknown task")
    /\ Len(fn_in.config.jobs) = 2
    /\ validate_job(fn_in.config.jobs[1][2]).err = ""
    /\ Ids(fn_in.config.jobs[1][2].tasks) = {"t1", "t2"}
    /\ Ids(fn_in.config.jobs[2][2].tasks) = {"u1"}

----------------------------------------------------------------------------
(* Errors before the run *)

\* the jobs mapping of a document whose jobs all have a task list
JobsOf(d) == [k \in 1..Len(d.jobs) |-> <<d.jobs[k][1], d.jobs[k][2].tasks>>]

\* the invocation is one in which validate_config raises, or in which run finds
\* the document valid and _filter_config_by_args raises
ErrorDetected ==
    /\ fn_in.fn = "main"
    /\ \/ validate_config(fn_in.document).err # ""
       \/ /\ fn_in.command = "run"
          /\ IsRaise(filter_config_by_args(JobsOf(fn_in.document), fn_in.args))

\* C23: in an invocation of run or validate in which a validation error or a
\* selection error is detected, no worker is ever started, and so no task is
\* executed, and the process ends with an exit status that is not 0.
ErrorsEndInvocationEarly ==
    ErrorDetected =>
        /\ procs = <<>>
        /\ main_pc \notin {"starting", "joining", "returned"}
        /\ main_pc = "exited" => fn_out.val # 0

\* run was asked for a job that the valid document of two jobs has not, and the
\* process ended with status 1 without a worker
RunOfUnknownJobExited ==
    /\ fn_in.fn = "main"
    /\ fn_in.command = "run"
    /\ Len(fn_in.document.jobs) = 2
    /\ validate_config(fn_in.document).err = ""
    /\ fn_in.args.jobs = <<"nope">>
    /\ main_pc = "exited"
    /\ fn_out.val = 1
    /\ procs = <<>>

----------------------------------------------------------------------------
(* No interpreter for a script or function task *)

\* _ensure_real_python raised for the task `id`: a script or function task
\* reached run_task outside dry-run mode while no interpreter can be found
InterpreterMissingFor(id) ==
    /\ id \in DOMAIN calls
    /\ ~python_ok
    /\ ~dry_run
    /\ TaskType(calls[id].task) \in {"script", "function"}

----------------------------------------------------------------------------
(* The command line of a shell task *)

ShellDone == fn_in.fn = "shell_command" /\ fn_out.done

\* the positional arguments and the keyword pairs of the task of the call
GivenArgs ==
    IF DictGet(fn_in.task, "args", VNone) = VNone THEN <<>> ELSE Item(fn_in.task, "args").v

GivenKwargs ==
    IF DictGet(fn_in.task, "kwargs", VNone) = VNone THEN VDict(<<>>) ELSE Item(fn_in.task, "kwargs")

HasKwargToken == \E i \in 1..Len(fn_in.pieces) : fn_in.pieces[i].token

RECURSIVE TokensReplaced(_, _)
\* the command of the pieces, each token whose key is in kw replaced by the
\* stringified value, every other piece as it is written
TokensReplaced(pieces, kw) ==
    IF pieces = <<>> THEN ""
    ELSE (IF pieces[1].token /\ HasKey(kw, pieces[1].text)
          THEN PyStr(Item(kw, pieces[1].text))
          ELSE CommandOf(<<pieces[1]>>))
         \o TokensReplaced(Tail(pieces), kw)

\* the tokens q appended to the command cmd
Appended(cmd, q) == IF q = <<>> THEN cmd ELSE cmd \o " " \o JoinStr(q, " ")

\* C25: for a shell task the positional arguments are appended to the command
\* in their given order, and the keyword arguments are applied in exactly one of
\* two ways: if the command holds a keyword-reference token, each token whose
\* key is in kwargs is replaced by the stringified value and no `--key value`
\* pair is appended; if it holds no such token, every pair is appended as
\* `--key value` behind the positional arguments.
ShellKwargsOneWay ==
    ShellDone =>
        fn_out.val =
            IF HasKwargToken
            THEN Appended(TokensReplaced(fn_in.pieces, GivenKwargs),
                          arg_tokens(GivenArgs, fn_in.windows))
            ELSE Appended(CommandOf(fn_in.pieces),
                          arg_tokens(GivenArgs, fn_in.windows)
                          \o kwarg_tokens(GivenKwargs.v, fn_in.windows))

\* the call of the repository's test: `echo got ${kwargs.x}` with the arguments
\* alpha, beta and x = "y" became `echo got y alpha beta`
KwargEmbeddedArgsAppended ==
    /\ ShellDone
    /\ fn_in.pieces = <<Text("echo got "), KwargToken("x")>>
    /\ GivenArgs = <<VStr("alpha"), VStr("beta")>>
    /\ GivenKwargs = VDict(<< <<"x", VStr("y")>> >>)
    /\ fn_out.val = "echo got y alpha beta"

\* the calls on which the command line is as C25 says: no text of the command
\* holds "${kwargs." outside a token, and no value put in place of a token is None
ShellKwargsOneWayOnPlainCommands ==
    (/\ ShellDone
     /\ \A i \in 1..Len(fn_in.pieces) :
           \/ ~fn_in.pieces[i].token /\ ~Contains(fn_in.pieces[i].text, KwargPrefix)
           \/ /\ fn_in.pieces[i].token
              /\ DictGet(GivenKwargs, fn_in.pieces[i].text, VInt(0)) # VNone)
    => ShellKwargsOneWay

----------------------------------------------------------------------------
(* The output and the return value of a function task *)

FunctionDone == fn_in.fn = "run_function" /\ fn_out.done

\* C26: for a function task run in a subprocess whose function returns normally,
\* the recorded stdout is exactly what the function printed and the recorded
\* return_value is the decoded value the launcher serialized behind the marker,
\* whatever the text and the value; when the subprocess exits with a non-zero
\* code, return_value is None and the recorded code is the subprocess's.
ReturnValueSplitFromOutput ==
    FunctionDone =>
        /\ fn_in.behaviour.kind = "return" =>
              /\ Item(fn_out.val, "stdout") = VStr(fn_in.behaviour.printed)
              /\ Item(fn_out.val, "return_value") = json_loads(json_dumps(fn_in.behaviour.rv))
              /\ Item(fn_out.val, "returncode") = VInt(0)
        /\ launcher(fn_in.behaviour).returncode # 0 =>
              /\ Item(fn_out.val, "return_value") = VNone
              /\ Item(fn_out.val, "returncode") = VInt(launcher(fn_in.behaviour).returncode)

\* a function that printed the marker text itself and returned a dict: the
\* output and the value were told apart all the same
MarkerPrintedAndValueDecoded ==
    /\ FunctionDone
    /\ fn_in.behaviour = Returns("log <<RETURN_VALUE_JSON>>1\n",
                                 VDict(<< <<"x", VInt(42)>>, <<"msg", VStr("ok")>> >>))
    /\ Item(fn_out.val, "stdout") = VStr("log <<RETURN_VALUE_JSON>>1\n")
    /\ Item(fn_out.val, "return_value") = fn_in.behaviour.rv

\* the calls on which the result is as C26 says: the serialized return value
\* does not hold the marker
ReturnValueSplitWhenValueHoldsNoMarker ==
    (FunctionDone /\ ~Contains(json_dumps(fn_in.behaviour.rv), Marker))
        => ReturnValueSplitFromOutput

----------------------------------------------------------------------------
(* The environment of a script task *)

\* a script task was launched: an interpreter was found for it
ScriptLaunched == fn_in.fn = "script_launch" /\ fn_out.done /\ ~IsRaise(fn_out.val)

\* the caller's environment with the directory dir put in front of PATH,
\* VIRTUAL_ENV set to its parent and PYTHONHOME removed
VenvEnvironment(environ, dir) ==
    [k \in (DOMAIN environ \cup {"PATH", "VIRTUAL_ENV"}) \ {"PYTHONHOME"} |->
        CASE k = "PATH" ->
                PathStr(dir) \o PathSep \o (IF "PATH" \in DOMAIN environ THEN environ["PATH"] ELSE "")
          [] k = "VIRTUAL_ENV" -> PathStr(PathParent(dir))
          [] OTHER -> environ[k]]

\* C27: the environment of the child process of a script task is derived from
\* the location of the interpreter that launches the script: if its directory
\* is named Scripts or bin, the directory is put in front of PATH, VIRTUAL_ENV
\* is the directory's parent and PYTHONHOME is removed; otherwise the
\* environment is an unchanged copy of the caller's.
ScriptEnvironmentFollowsLauncher ==
    ScriptLaunched =>
        fn_out.val.env =
            IF PathName(PathParent(fn_out.val.interpreter)) \in {"Scripts", "bin"}
            THEN VenvEnvironment(fn_in.environ, PathParent(fn_out.val.interpreter))
            ELSE fn_in.environ

\* a script launched by the virtual environment's python that run_task was
\* given, PYTHONHOME being set in the caller's environment and not in the child's
LaunchedInsideVenv ==
    /\ ScriptLaunched
    /\ fn_in.interpreter = <<"proj", ".venv", "bin", "python">>
    /\ fn_out.val.interpreter = fn_in.interpreter
    /\ "PYTHONHOME" \in DOMAIN fn_in.environ
    /\ "PYTHONHOME" \notin DOMAIN fn_out.val.env
    /\ fn_out.val.env["VIRTUAL_ENV"] = "/proj/.venv"
    /\ fn_out.val.env["PATH"] = "/proj/.venv/bin:/usr/bin"

\* the calls on which the environment is as C27 says: the interpreter that
\* launches the script is the one run_task was given
ScriptEnvironmentFollowsGivenInterpreter ==
    (ScriptLaunched /\ fn_out.val.interpreter = fn_in.interpreter)
        => ScriptEnvironmentFollowsLauncher

----------------------------------------------------------------------------
(* Cycles *)

\* some task of the list depends on itself, directly or through other tasks
Cyclic(ts) == \E id \in Ids(ts) : id \in Upstream(ts, id)

\* the task has an id, one of the three types and the field its type needs
FieldsSound(task) ==
    /\ HasKey(task, "id")
    /\ HasKey(task, "type")
    /\ \/ TaskType(task) = "shell" /\ HasKey(task, "command")
       \/ TaskType(task) \in {"script", "function"} /\ HasKey(task, "path")

\* C28: cycles are not detected: validate_config accepts a configuration that is
\* sound apart from a job whose depends_on edges form a cycle, a task that
\* depends on itself included, and resolve_dependencies on a task list with a
\* cycle returns no order: its recursion has no end, which Python stops with
\* RecursionError.
CyclesAreNotDetected ==
    /\ (/\ ValidateDone
        /\ IdsAndDependenciesSound(fn_in.config)
        /\ \A k \in 1..Len(fn_in.config.jobs) :
              \A i \in 1..Len(fn_in.config.jobs[k][2].tasks) :
                  FieldsSound(fn_in.config.jobs[k][2].tasks[i])
        /\ \E k \in 1..Len(fn_in.config.jobs) : Cyclic(fn_in.config.jobs[k][2].tasks))
       => fn_out.val.err = ""
    /\ (/\ ResolvedDependencies
        /\ \A i \in 1..Len(fn_in.tasks) : DepIds(fn_in.tasks[i]) \subseteq Ids(fn_in.tasks)
        /\ Cyclic(fn_in.tasks))
       => fn_out.val.err = "RecursionError"

\* a configuration of two jobs was accepted, one with a task that depends on
\* itself and one with two tasks that depend on each other
CyclicJobsAccepted ==
    /\ ValidateDone
    /\ fn_out.val.err = ""
    /\ Len(fn_in.config.jobs) = 2
    /\ \E k \in 1..2 : \E id \in Ids(fn_in.config.jobs[k][2].tasks) :
          id \in DepIds(TaskOf(fn_in.config.jobs[k][2].tasks, id))
    /\ \E k \in 1..2 :
          LET ts == fn_in.config.jobs[k][2].tasks
          IN  /\ Cyclic(ts)
              /\ \A id \in Ids(ts) : id \notin DepIds(TaskOf(ts, id))

----------------------------------------------------------------------------
(* One task at a time *)

\* one step of run_job hands at most one task to run_task; when it does, every
\* task before that one in the resolved order has a recorded result, no earlier
\* call is still without its result, and the step ends with the result of the
\* call recorded: the call blocks the loop
OneAtATimeStep ==
    LET started == DOMAIN calls' \ DOMAIN calls
    IN  /\ Cardinality(started) <= 1
        /\ \A u \in started :
              /\ \A j \in 1..(Position(tasks, u) - 1) : TaskId(tasks[j]) \in DOMAIN task_outputs
              /\ DOMAIN calls \subseteq DOMAIN task_outputs
              /\ u \notin DOMAIN task_outputs
              /\ u \in DOMAIN task_outputs'

\* C29: within a job at most one task is executing at any time: the backend of
\* a task is invoked only after the task before it in the resolved order has a
\* recorded result.
BackendsRunOneAtATime == [][OneAtATimeStep]_vars

\* the backends of two tasks that do not depend on each other were both called,
\* the first of them having failed
TwoBackendsCalledInTurn ==
    \E a, b \in DOMAIN calls :
        /\ Position(tasks, a) < Position(tasks, b)
        /\ a \notin Upstream(job, b)
        /\ calls[a].backend # "none"
        /\ calls[b].backend # "none"
        /\ ResultCode(task_outputs[a]) # 0
        /\ b \in DOMAIN task_outputs

----------------------------------------------------------------------------
(* The log files of a run *)

\* the operations worker k did on the file at `path`, in their order
OperationsOf(path, k) ==
    SelectSeq([i \in 1..Len(log[path]) |-> log[path][i]], LAMBDA op : op[1] = k)

\* the paths on which worker k did some operation
FilesOf(k) == {path \in DOMAIN log : \E i \in 1..Len(log[path]) : log[path][i][1] = k}

\* C30: within one run, jobs with distinct ids write to distinct log files, the
\* name being built from the run's timestamp and the job id; each file is opened
\* once, by the worker of its job, stays open for as long as that worker runs
\* and is written by no other worker.
LogFilesArePrivate ==
    /\ main_pc # "idle" =>
          \A j, k \in 1..Len(procs) :
              procs[j].job_id # procs[k].job_id => FilesOf(j) \cap FilesOf(k) = {}
    /\ main_pc # "idle" =>
          \A k \in 1..Len(procs) :
              LET w == procs[k]
                  path == "dagrunner_" \o w.timestamp \o "_" \o w.job_id \o ".log"
              IN  /\ w.timestamp = RunTimestamp
                  /\ FilesOf(k) = IF w.pc = "start" THEN {} ELSE {path}
                  /\ w.pc # "start" =>
                        LET ops == log[path]
                        IN  /\ \A i \in 1..Len(ops) : ops[i][1] = k
                            /\ ops[1][2] = "open"
                            /\ \A i \in 2..Len(ops) : ops[i][2] # "open"
                            /\ \A i \in 1..(Len(ops) - 1) : ops[i][2] # "close"
                            /\ ops[Len(ops)][2] = "close" <=> w.pc \in {"done", "crashed"}

\* MaxJobs workers have ended, each with a task recorded, and each left a log
\* file of its own, opened, written and closed
EveryJobLeftItsLogFile ==
    /\ Len(procs) = MaxJobs
    /\ \A k \in 1..Len(procs) :
          /\ procs[k].pc = "done"
          /\ DOMAIN procs[k].task_outputs # {}
          /\ OperationsOf(log_path(procs[k].timestamp, procs[k].job_id), k)[1][2] = "open"
    /\ Cardinality(DOMAIN log) = MaxJobs

----------------------------------------------------------------------------
(* A task that never terminates *)

\* worker k is in a backend call that does not return
Hung(k) == k <= Len(procs) /\ procs[k].pc = "hung"

\* worker k ran its job to the end: every task of the job has a recorded result
RanToCompletion(k) ==
    /\ k <= Len(procs)
    /\ procs[k].pc = "done"
    /\ DOMAIN procs[k].task_outputs = Ids(procs[k].job)

\* a worker that can step has a step: the call of resolve_dependencies, the end
\* of the loop, or an iteration, which skips the task or calls run_task
WorkerStepAvailable(k) ==
    \/ procs[k].pc = "start"
    \/ procs[k].pc = "loop" /\ procs[k].idx > Len(procs[k].tasks)
    \/ /\ procs[k].pc = "loop"
       /\ procs[k].idx <= Len(procs[k].tasks)
       /\ LET task == task_after_resolution(
                          procs[k].tasks[procs[k].idx],
                          resolve_placeholders(procs[k].tasks[procs[k].idx],
                                               worker_context(procs, k)))
          IN  \/ must_skip(task, worker_context(procs, k), ignore_deps)
              \/ TaskOutcomes(task, dry_run, python_ok) # {}

\* a step leaves a hung worker hung
HungStaysHung == \A k \in 1..Len(procs) : procs[k].pc = "hung" => procs'[k].pc = "hung"

\* C31: a job one of whose tasks never terminates blocks its own worker only:
\* the worker stays in that call for ever, run_all_jobs, which joins every
\* worker, never returns, and under fair scheduling the worker of every other
\* job is started and, its job being well formed, runs all of its tasks to
\* completion unless a task of its own never terminates.
HungTaskBlocksOnlyItsJob ==
    /\ [](\A k \in 1..Len(procs) : WorkerCanStep(k) => WorkerStepAvailable(k))
    /\ [][HungStaysHung]_vars
    /\ []((\E k \in 1..Len(procs) : Hung(k)) => main_pc # "returned")
    /\ \A k \in 1..MaxJobs :
          <>[](k <= Len(config) /\ WellFormed(config[k][2])
                  => Hung(k) \/ RanToCompletion(k))

\* the first job of MaxJobs hangs in its first task, every other job has run
\* both of its tasks to the end, and run_all_jobs waits for the first
OneHungOthersDone ==
    /\ Len(procs) = MaxJobs
    /\ Hung(1) /\ procs[1].idx = 1
    /\ \A k \in 2..MaxJobs : RanToCompletion(k) /\ Len(procs[k].job) = 2
    /\ main_pc = "joining" /\ main_i = 1

----------------------------------------------------------------------------
(* A dependency that is not in the task list *)

\* some task of the list names in depends_on an id that no task of the list has
Dangling(ts) == \E i \in 1..Len(ts) : ~(DepIds(ts[i]) \subseteq Ids(ts))

\* run_job ended in its call of resolve_dependencies: no order was returned, no
\* task was handed to run_task and no result was recorded
EndedBeforeAnyTask ==
    /\ pc = "crashed"
    /\ tasks = <<>>
    /\ calls = EmptyMap
    /\ task_outputs = EmptyMap

\* C32 (as stated): when the task list given to resolve_dependencies holds a task
\* whose depends_on names an id that is not in the list, resolve_dependencies
\* fails with a lookup error and no task of the job is executed.
DanglingDependencyIsLookupError ==
    (Dangling(job) /\ pc # "start") =>
        /\ resolve_dependencies(job).err = "KeyError"
        /\ EndedBeforeAnyTask

\* C32: when the task list given to resolve_dependencies holds a task whose
\* depends_on names an id that is not in the list, resolve_dependencies fails and
\* no task of the job is executed; it fails with a lookup error, unless the list
\* also holds a dependency cycle, in which case it fails with the lookup error
\* or with RecursionError, whichever its visit comes to first.
DanglingDependencyStopsJob ==
    (Dangling(job) /\ pc # "start") =>
        /\ resolve_dependencies(job).err \in {"KeyError", "RecursionError"}
        /\ resolve_dependencies(job).err = "RecursionError" => Cyclic(job)
        /\ EndedBeforeAnyTask

\* the job that --no-deps with -t t2 leaves of t1 <- t2 ended with KeyError
\* before any task
FilteredJobEndedWithKeyError ==
    /\ job = <<MkTask("t2", "function", <<"t1">>, <<>>)>>
    /\ resolve_dependencies(job).err = "KeyError"
    /\ EndedBeforeAnyTask

----------------------------------------------------------------------------
(* The declaration order as the tie-break *)

\* every task of the list stands behind all the tasks listed in its depends_on
DeclaredInDependencyOrder(ts) ==
    \A i \in 1..Len(ts) : \A d \in DepIds(ts[i]) : \E j \in 1..(i - 1) : TaskId(ts[j]) = d

\* C33: resolve_dependencies gives for a task list one order, which follows the
\* declaration order wherever the dependencies leave a choice: a list that is
\* declared with every dependency before its dependents is returned as it is,
\* and so is every order that resolve_dependencies has returned, when it is
\* resolved again.
DeclarationOrderIsKept ==
    ResolvedDependencies =>
        /\ DeclaredInDependencyOrder(fn_in.tasks) =>
              fn_out.val.err = "" /\ fn_out.val.resolved = fn_in.tasks
        /\ fn_out.val.err = "" =>
              /\ DeclaredInDependencyOrder(fn_out.val.resolved)
              /\ resolve_dependencies(fn_out.val.resolved) = fn_out.val

\* a list of MaxTasks tasks, the first two without dependencies and the last
\* depending on the second, came back in its declaration order
IndependentTasksKeptInOrder ==
    /\ ResolvedDependencies
    /\ Len(fn_in.tasks) = MaxTasks
    /\ DepIds(fn_in.tasks[1]) = {} /\ DepIds(fn_in.tasks[2]) = {}
    /\ DepIds(fn_in.tasks[MaxTasks]) = {TaskId(fn_in.tasks[2])}
    /\ fn_out.val.err = ""
    /\ fn_out.val.resolved = fn_in.tasks

----------------------------------------------------------------------------
(* A task without id *)

\* the tasks of the list ts that have the key "id"
TasksWithId(ts) == SelectSeq(ts, LAMBDA t : HasKey(t, "id"))

\* the document without its tasks that have no id
WithoutIdlessTasks(c) ==
    [c EXCEPT !.jobs = [k \in 1..Len(c.jobs) |->
                           <<c.jobs[k][1],
                             [c.jobs[k][2] EXCEPT !.tasks = TasksWithId(c.jobs[k][2].tasks)]>>]]

\* the one defect of the document is that some task has no id: no job has more
\* than one such task, and without these tasks the document is valid
MissingIdIsOnlyDefect(c) ==
    /\ c.has_jobs
    /\ \E k \in 1..Len(c.jobs) : Len(TasksWithId(c.jobs[k][2].tasks)) < Len(c.jobs[k][2].tasks)
    /\ \A k \in 1..Len(c.jobs) :
          Len(c.jobs[k][2].tasks) <= Len(TasksWithId(c.jobs[k][2].tasks)) + 1
    /\ validate_config(WithoutIdlessTasks(c)).err = ""

\* C34: validate_config reports a task that has no id as a validation error, the
\* AssertionError 'Missing task id', as it reports every other structural
\* error, so that run turns it into its 'Validation error' exit.
MissingIdIsValidationError ==
    (ValidateDone /\ MissingIdIsOnlyDefect(fn_in.config)) =>
        fn_out.val = Validated("AssertionError", "Missing task id")

\* a document whose one defect is a task without id, behind a sound task t1, was
\* given to validate_config, which raised KeyError
MissingIdRaisedKeyError ==
    /\ ValidateDone
    /\ MissingIdIsOnlyDefect(fn_in.config)
    /\ Len(fn_in.config.jobs) = 1
    /\ Len(fn_in.config.jobs[1][2].tasks) = 2
    /\ fn_out.val = Validated("KeyError", "id")

----------------------------------------------------------------------------
(* The jobs of the filtered configuration *)

\* C35 (as stated): every job in the configuration that _filter_config_by_args
\* returns has at least one task.
KeptJobsHaveTasks ==
    (FilterDone /\ ~IsRaise(fn_out.val)) =>
        \A k \in 1..Len(fn_out.val.v) : Len(fn_out.val.v[k][2]) > 0

\* C35: every job in the configuration that _filter_config_by_args returns has
\* at least one task, unless its task list was empty before filtering and no
\* inclusion filter is given: a job that has tasks is added to the result only
\* if it has tasks after filtering.
KeptJobsHaveTasksUnlessEmptyBefore ==
    (FilterDone /\ ~IsRaise(fn_out.val)) =>
        \A k \in 1..Len(fn_out.val.v) :
            \/ Len(fn_out.val.v[k][2]) > 0
            \/ /\ JobTasks(fn_in.config, fn_out.val.v[k][1]) = <<>>
               /\ ~HasInclusion(fn_in.args)

\* of MaxJobs jobs with tasks, the exclusion filters took every task of one and
\* some of another: the first is not in the result, the other is, with the tasks
\* it has left
EmptiedJobLeftOutOtherKept ==
    /\ FilterDone
    /\ ~IsRaise(fn_out.val)
    /\ ~HasInclusion(fn_in.args)
    /\ Len(fn_in.config) = MaxJobs
    /\ \A k \in 1..Len(fn_in.config) : Len(fn_in.config[k][2]) > 0
    /\ Len(fn_out.val.v) = MaxJobs - 1
    /\ \E k \in 1..Len(fn_out.val.v) :
          /\ Len(fn_out.val.v[k][2]) > 0
          /\ Len(fn_out.val.v[k][2]) < Len(JobTasks(fn_in.config, fn_out.val.v[k][1]))

----------------------------------------------------------------------------
(* What a skip and a backend call say about the dependencies *)

\* the task is recorded as skipped: by its result or by its status in the log
RecordedAsSkipped(id) ==
    \/ Logged(<<"status", id, "skipped">>)
    \/ id \in DOMAIN task_outputs /\ task_outputs[id] = SkipResult

\* run_task called a backend for the task
BackendInvoked(id) == id \in DOMAIN calls /\ calls[id].backend # "none"

\* C36: in run_job with ignore_deps unset, a task is recorded as skipped only if
\* one of the tasks it lists in depends_on has a non-zero exit code on record; a
\* task without dependencies is never skipped; and whenever a backend was called
\* for a task, every task it depends on, directly or through other tasks, has
\* the exit code 0 on record.
SkippedOnlyAfterFailedDependency ==
    ~ignore_deps =>
        \A id \in Ids(job) :
            /\ RecordedAsSkipped(id) =>
                  \E d \in DepIds(TaskOf(job, id)) :
                      d \in DOMAIN task_outputs /\ ResultCode(task_outputs[d]) # 0
            /\ DepIds(TaskOf(job, id)) = {} => ~RecordedAsSkipped(id)
            /\ BackendInvoked(id) =>
                  \A u \in Upstream(job, id) :
                      u \in DOMAIN task_outputs /\ ResultCode(task_outputs[u]) = 0

\* a finished job in which a backend was called for a task behind a chain of two
\* dependencies that both exited with 0, and failed, and in which no task was
\* skipped although one failed
BackendCalledBehindTwoSuccesses ==
    /\ pc = "done"
    /\ ~ignore_deps
    /\ \E a, b, c \in Ids(job) :
          /\ a \in DepIds(TaskOf(job, b)) /\ b \in DepIds(TaskOf(job, c))
          /\ a \notin DepIds(TaskOf(job, c))
          /\ BackendInvoked(a) /\ BackendInvoked(b) /\ BackendInvoked(c)
          /\ ResultCode(task_outputs[a]) = 0 /\ ResultCode(task_outputs[b]) = 0
          /\ ResultCode(task_outputs[c]) # 0
    /\ \A id \in Ids(job) : ~RecordedAsSkipped(id)

----------------------------------------------------------------------------
(* The resolved order as a permutation *)

\* the places of the list q at which the task stands
PlacesOf(q, task) == {p \in 1..Len(q) : q[p] = task}

\* C37: for a task list with distinct ids, acyclic dependencies and no
\* depends_on id that names no task of the list, resolve_dependencies returns a
\* permutation of the list: every task stands in the order exactly once, also
\* when tasks share a dependency or a task lists a dependency twice.
ResolvedIsPermutation ==
    (ResolvedDependencies /\ WellFormed(fn_in.tasks)) =>
        /\ fn_out.val.err = ""
        /\ Len(fn_out.val.resolved) = Len(fn_in.tasks)
        /\ \A i \in 1..Len(fn_in.tasks) :
              Cardinality(PlacesOf(fn_out.val.resolved, fn_in.tasks[i])) = 1
        /\ \A p \in 1..Len(fn_out.val.resolved) :
              PlacesOf(fn_in.tasks, fn_out.val.resolved[p]) # {}

\* a list in which two tasks depend on the same task, one of them listing it
\* twice, came back with every task in it once
SharedAndRepeatedDependencyResolved ==
    /\ ResolvedDependencies
    /\ WellFormed(fn_in.tasks)
    /\ \E i \in 1..Len(fn_in.tasks) :
          Len(DependsOn(fn_in.tasks[i])) > Cardinality(DepIds(fn_in.tasks[i]))
    /\ \E i, j \in 1..Len(fn_in.tasks) :
          i # j /\ DepIds(fn_in.tasks[i]) \cap DepIds(fn_in.tasks[j]) # {}
    /\ fn_out.val.err = ""
    /\ Len(fn_out.val.resolved) = Len(fn_in.tasks)
    /\ Ids(fn_out.val.resolved) = Ids(fn_in.tasks)

----------------------------------------------------------------------------
(* Exclusions and dependencies *)

\* the tasks of ts that an exclusion filter names or matches
ExcludedIds(ts, a) == Named(Ids(ts), a.exclude_tasks, a.exclude_task_globs)

\* the tasks of ts on which a task of the selection depends, directly or through
\* other tasks
NeededIds(ts, a) == UNION {Upstream(ts, s) : s \in SelectedIds(ts, a)}

\* C38: when dependencies are followed, the exclusion filters do not reach the
\* dependencies: a selected job in which a task remains selected is in the
\* returned configuration, and every task of it that an exclusion id or glob
\* matches is among its tasks there if a task that remains selected depends on
\* it, directly or through other tasks.
ExclusionsSpareDependencies ==
    (FilterDone /\ ~fn_in.args.no_deps /\ ~IsRaise(fn_out.val)) =>
        LET a      == fn_in.args
            chosen == SelectedJobs(fn_in.config, a)
        IN  \A k \in 1..Len(chosen) :
                SelectedIds(chosen[k][2], a) # {} =>
                    /\ chosen[k][1] \in JobIds(fn_out.val.v)
                    /\ ExcludedIds(chosen[k][2], a) \cap NeededIds(chosen[k][2], a)
                          \subseteq Ids(Entry(fn_out.val.v, chosen[k][1])[2])

\* the glob a* excluded a1 and a2 of the chain b1 -> a2 -> a1, b1 remained
\* selected, and the job came back with all three tasks
GlobExcludedDependenciesKept ==
    /\ FilterDone
    /\ ~fn_in.args.no_deps
    /\ ~IsRaise(fn_out.val)
    /\ Len(fn_in.config) = 1
    /\ ~HasInclusion(fn_in.args)
    /\ fn_in.args.exclude_tasks = <<>>
    /\ fn_in.args.exclude_task_globs = <<"a*">>
    /\ ExcludedIds(fn_in.config[1][2], fn_in.args) = {"a1", "a2"}
    /\ SelectedIds(fn_in.config[1][2], fn_in.args) = {"b1"}
    /\ Ids(fn_out.val.v[1][2]) = {"a1", "a2", "b1"}

----------------------------------------------------------------------------
(* The closure of the start ids *)

\* the ids reached from the start ids along zero or more depends_on edges, the
\* ids that are no task of the list among them
ReachableIds(ts, start) ==
    {start[i] : i \in 1..Len(start)} \cup UNION {Upstream(ts, start[i]) : i \in 1..Len(start)}

\* the loop of the stepwise call gives what the operator dependency_closure,
\* used by the filter, gives on this stack
ClosureLoopAgrees ==
    fn_out.done =>
        fn_out.val = closure_loop(fn_in.start, {}, index_tasks(fn_in.tasks))

\* C39: _dependency_closure terminates on every finite task map, with cycles
\* among the depends_on edges or without; it raises KeyError exactly when an id
\* reachable from the start ids is not in the task map, and otherwise returns
\* exactly the set of the ids reachable from the start ids.
ClosureEndsWithReachableIds ==
    /\ <>(fn_out.done)
    /\ [](fn_out.done =>
            LET reach == ReachableIds(fn_in.tasks, fn_in.start)
            IN  IF reach \subseteq Ids(fn_in.tasks)
                THEN fn_out.val = [err |-> "", ids |-> reach]
                ELSE fn_out.val.err = "KeyError")

\* a call on two tasks that depend on each other returned both ids
ClosureOfCycleReturned ==
    /\ fn_out.done
    /\ Len(fn_in.tasks) = 2
    /\ Len(fn_in.start) = 1
    /\ \A k \in 1..2 : DepIds(fn_in.tasks[k]) = Ids(fn_in.tasks) \ {TaskId(fn_in.tasks[k])}
    /\ fn_out.val = [err |-> "", ids |-> Ids(fn_in.tasks)]

----------------------------------------------------------------------------
(* An exact token on a task of the run context *)

\* the call resolved a string that is exactly one token that names a task of its
\* run context
ExactTokenOnKnownTask ==
    /\ ResolvedPlaceholders
    /\ fn_in.shape = "exact"
    /\ fn_in.tid \in DOMAIN fn_in.outputs

\* C40: an exact-match token that names a task of the run context never raises,
\* and it resolves to None when that task has no return value (it failed, or it
\* is a command or script task) or when the field path names no value in the
\* return value.
KnownTaskTokenIsNullWhenUnresolvable ==
    ExactTokenOnKnownTask =>
        /\ ~IsRaise(fn_out.val)
        /\ ~Referenced(fn_in.outputs[fn_in.tid], fn_in.path).ok => fn_out.val = VNone

\* an exact token on a producer that failed resolved to None
FailedProducerTokenGaveNone ==
    /\ ExactTokenOnKnownTask
    /\ fn_in.outputs[fn_in.tid] = FunctionResult(1, VNone)
    /\ fn_in.path = <<"x">>
    /\ fn_out.val = VNone

\* the token ${outputs.producer.return_value_n} on a return value without the
\* key return_value_n resolved to the value of the key _n
PrefixStrippedTokenGaveOtherField ==
    /\ ExactTokenOnKnownTask
    /\ fn_in.path = <<"return_value_n">>
    /\ ~Referenced(fn_in.outputs[fn_in.tid], fn_in.path).ok
    /\ fn_out.val = VInt(9)

\* the argument list of a task definition, <<>> if it has none
ArgsOf(task) == IF HasKey(task, "args") THEN Item(task, "args").v ELSE <<>>

\* in a run with ignore_deps, a task handed to run_task whose one argument is an
\* exact token on a task that was recorded with a non-zero exit code before it
\* was handed over with None as that argument, and not with the token
FailedProducerGivesNullArgument ==
    ignore_deps =>
        \A id \in DOMAIN calls : \A p \in Ids(job) :
            (/\ ArgsOf(TaskOf(job, id)) = <<VStr(Token(p, "x"))>>
             /\ p \in DOMAIN task_outputs
             /\ ResultCode(task_outputs[p]) # 0
             /\ Position(tasks, p) < Position(tasks, id))
            => ArgsOf(calls[id].task) = <<VNone>>

\* a consumer that depends on a failed producer ran with None for its token
ConsumerRanWithNull ==
    /\ ignore_deps
    /\ pc = "done"
    /\ \E id \in DOMAIN calls : \E p \in DepIds(TaskOf(job, id)) :
          /\ ArgsOf(TaskOf(job, id)) = <<VStr(Token(p, "x"))>>
          /\ RanAndFailed(p)
          /\ calls[id].backend = "run_function"
          /\ ArgsOf(calls[id].task) = <<VNone>>

====
